---- MODULE Spec2Model ----
(***************************************************************************)
(* Vehicle and pedestrian simulation of pogicity-demo:                     *)
(*   TrafficManager.ts  (cars on 2x2 lane blocks)                          *)
(*   CitizenManager.ts  (characters on sidewalks and crosswalks)           *)
(* Positions are fixed-point: one grid tile is Unit position units, so the *)
(* source's 0.5 is Unit/2, 2.0 is 2*Unit, and distances are compared       *)
(* squared (dist < 1.5 is 4*d2 < 9*Unit^2).                                *)
(***************************************************************************)
EXTENDS Integers, Sequences, FiniteSets, TLC

(* ------------------------------ bounds -------------------------------- *)
MaxCars == 2
MaxCharacters == 1
MaxJointCars == 1
MaxEditCars == 1
MaxJointCharacters == 1
MaxWaiting == 3
MaxCrowd == 2
MaxKnotCars == 2
MaxKnotWaiting == 62

(* ------------------- constants imported from ../types ------------------ *)
Unit == 8
GRID_WIDTH == 8
GRID_HEIGHT == 4
ROAD_LANE_SIZE == 2
CAR_SPEED == 1
CHARACTER_SPEED == 1
DEADLOCK_WAIT == 60

Half == Unit \div 2
Nil == -1

Direction == {"up", "down", "left", "right"}
allDirections == <<"up", "down", "left", "right">>
Colors == {"red", "yellow", "green"}
Axes == {"ns", "ew"}

SPAWN_CAR_TYPES == {"jeep"}
SPAWN_CHARACTER_TYPES == {"banana"}
(* spawn draws the speed around the base speed: a slower and a faster one *)
CarSpeeds == {CAR_SPEED, 2 * CAR_SPEED}
CharacterSpeeds == {CHARACTER_SPEED}

(* ------------------------------ roadUtils ------------------------------ *)
directionVectors ==
  [up    |-> [dx |-> 0,  dy |-> -1],
   down  |-> [dx |-> 0,  dy |-> 1],
   left  |-> [dx |-> -1, dy |-> 0],
   right |-> [dx |-> 1,  dy |-> 0]]

oppositeDirection ==
  [up |-> "down", down |-> "up", left |-> "right", right |-> "left"]

rightTurnDirection ==
  [up |-> "right", right |-> "down", down |-> "left", left |-> "up"]

leftTurnDirection ==
  [up |-> "left", left |-> "down", down |-> "right", right |-> "up"]

isRoadTileType(type) == type \in {"RoadLane", "RoadTurn"}

getRoadLaneOrigin(gx, gy) ==
  [x |-> gx - (gx % ROAD_LANE_SIZE), y |-> gy - (gy % ROAD_LANE_SIZE)]

Floor(p) == p \div Unit

(* ------------------------------- grids --------------------------------- *)
(* A layout is what the driver hands to setGrid: lane blocks (2x2, with    *)
(* the direction on the origin cell), plain walkable tiles, and the        *)
(* crosswalk zones the signal collaborator knows for it. The road block of *)
(* "alley" carries no laneDirection: no lane for vehicles, road surface    *)
(* for pedestrians.                                                        *)
Block(ox, oy, type, dir) == [ox |-> ox, oy |-> oy, type |-> type, dir |-> dir]

LayoutBlocks ==
  [empty |-> {},
   city  |-> {Block(0, 0, "RoadLane", "right"), Block(2, 0, "RoadLane", "right"),
              Block(4, 0, "RoadTurn", "right"), Block(6, 0, "RoadLane", "down"),
              Block(4, 2, "RoadLane", "down"),  Block(6, 2, "RoadLane", "down")},
   shift |-> {Block(0, 0, "RoadLane", "right"), Block(2, 0, "RoadTurn", "right"),
              Block(2, 2, "RoadLane", "down")},
   plaza |-> {Block(0, 1, "RoadLane", "right"), Block(2, 1, "RoadTurn", "right")},
   joint |-> {Block(0, 1, "RoadLane", "right"), Block(2, 1, "RoadLane", "right"),
              Block(4, 1, "RoadTurn", "right")},
   alley |-> {Block(0, 1, "RoadLane", "none")},
   knot  |-> {Block(0, 0, "RoadLane", "right"), Block(2, 0, "RoadLane", "left"),
              Block(4, 0, "RoadTurn", "down"),  Block(6, 0, "RoadLane", "left"),
              Block(2, 2, "RoadLane", "right"), Block(4, 2, "RoadLane", "right")},
   twin  |-> {Block(0, 1, "RoadLane", "none"), Block(2, 1, "RoadLane", "none")},
   ring  |-> {Block(0, 0, "RoadLane", "right"), Block(2, 0, "RoadLane", "right"),
              Block(4, 0, "RoadLane", "right"), Block(6, 0, "RoadLane", "right"),
              Block(0, 2, "RoadLane", "left"),  Block(2, 2, "RoadLane", "left"),
              Block(4, 2, "RoadLane", "left"),  Block(6, 2, "RoadLane", "left")}]

LayoutWalk ==
  [empty |-> {},
   city  |-> {},
   shift |-> {},
   plaza |-> {<<1, 0>>, <<2, 0>>, <<1, 3>>, <<2, 3>>},
   joint |-> {<<3, 0>>, <<3, 3>>},
   alley |-> {<<1, 0>>, <<1, 3>>},
   knot  |-> {},
   twin  |-> {<<1, 0>>, <<2, 0>>, <<1, 3>>, <<2, 3>>},
   ring  |-> {}]

(* crosswalk zones: id -> the tiles of the zone (road-lane tiles next to    *)
(* the intersection)                                                       *)
LayoutCrosswalks ==
  [empty |-> <<>>,
   city  |-> <<>>,
   shift |-> <<>>,
   plaza |-> <<{<<1, 1>>, <<1, 2>>}>>,
   joint |-> <<{<<3, 1>>, <<3, 2>>}>>,
   alley |-> <<{<<1, 1>>, <<1, 2>>}>>,
   knot  |-> <<>>,
   twin  |-> <<{<<1, 1>>, <<1, 2>>}, {<<2, 1>>, <<2, 2>>}>>,
   ring  |-> <<>>]

Layouts == DOMAIN LayoutBlocks
CrosswalkIds == 1..2

NoCell == [present |-> FALSE, type |-> "none", isOrigin |-> FALSE,
           originX |-> Nil, originY |-> Nil, laneDirection |-> "none"]

BlocksAt(g, gx, gy) ==
  {b \in LayoutBlocks[g] :
     /\ gx >= b.ox /\ gx < b.ox + ROAD_LANE_SIZE
     /\ gy >= b.oy /\ gy < b.oy + ROAD_LANE_SIZE}

RoadCell(b, gx, gy) ==
  [present |-> TRUE, type |-> b.type, isOrigin |-> (gx = b.ox /\ gy = b.oy),
   originX |-> b.ox, originY |-> b.oy,
   laneDirection |-> IF gx = b.ox /\ gy = b.oy THEN b.dir ELSE "none"]

PlainCell(g, gx, gy) ==
  [present |-> TRUE,
   type |-> IF <<gx, gy>> \in LayoutWalk[g] THEN "Sidewalk" ELSE "Grass",
   isOrigin |-> FALSE, originX |-> Nil, originY |-> Nil, laneDirection |-> "none"]

CellFrom(bs, g, gx, gy) ==
  IF bs # {} THEN RoadCell(CHOOSE b \in bs : TRUE, gx, gy) ELSE PlainCell(g, gx, gy)

MakeCell(g, gx, gy) == CellFrom(BlocksAt(g, gx, gy), g, gx, gy)

GridRows(g) == IF g = "empty" THEN 0 ELSE GRID_HEIGHT

GridOf ==
  [g \in Layouts |->
     [gy \in 0..(GridRows(g) - 1) |->
        [gx \in 0..(GRID_WIDTH - 1) |-> MakeCell(g, gx, gy)]]]

(* this.grid[gy]?.[gx] *)
CellAt(g, gx, gy) ==
  IF gy >= 0 /\ gy < GridRows(g) /\ gx >= 0 /\ gx < GRID_WIDTH
  THEN GridOf[g][gy][gx] ELSE NoCell

(* ------------------------------- state --------------------------------- *)
VARIABLES
  grid,            \* the layout last handed to setGrid (both managers)
  cars,            \* TrafficManager.cars
  characters,      \* CitizenManager.characters
  lightColor,      \* signal collaborator: light colour per axis of approach
  pedestrianIds,   \* signal collaborator: crosswalk id -> registered ids
  canCross,        \* signal collaborator: canCrossAtCrosswalk per crosswalk
  canWalk,         \* signal collaborator: canWalkThroughIntersection
  raised           \* a call of CitizenManager.update() ended in a TypeError

vars == <<grid, cars, characters, lightColor, pedestrianIds, canCross, canWalk, raised>>

(* ====================== TrafficManager: lane helpers ==================== *)
NoLane == [ok |-> FALSE, originX |-> Nil, originY |-> Nil,
           direction |-> "none", type |-> "none"]

OutOfGrid(gx, gy) == gx < 0 \/ gx >= GRID_WIDTH \/ gy < 0 \/ gy >= GRID_HEIGHT

(* variant: the lane is returned whether or not the origin cell has a     *)
(* direction                                                              *)
LaneWithoutDirection(originX, originY, originCell) ==
  IF ~originCell.present THEN NoLane
  ELSE [ok |-> TRUE, originX |-> originX, originY |-> originY,
        direction |-> originCell.laneDirection, type |-> originCell.type]

(* getLaneAt, the lines after the origin cell is read *)
LaneOfOrigin(originX, originY, originCell) ==
  IF ~originCell.present \/ originCell.laneDirection = "none" THEN NoLane
  ELSE [ok |-> TRUE, originX |-> originX, originY |-> originY,
        direction |-> originCell.laneDirection, type |-> originCell.type]

LaneAtOrigin(g, originX, originY) ==
  LaneOfOrigin(originX, originY, CellAt(g, originX, originY))

(* cell.originX ?? getRoadLaneOrigin(gx, gy).x *)
OriginXOf(cell, gx, gy) ==
  IF cell.originX # Nil THEN cell.originX ELSE getRoadLaneOrigin(gx, gy).x

OriginYOf(cell, gx, gy) ==
  IF cell.originY # Nil THEN cell.originY ELSE getRoadLaneOrigin(gx, gy).y

LaneOfCell(g, gx, gy, cell) ==
  IF ~cell.present \/ ~isRoadTileType(cell.type) THEN NoLane
  ELSE LaneAtOrigin(g, OriginXOf(cell, gx, gy), OriginYOf(cell, gx, gy))

LaneAtTile(g, gx, gy) ==
  IF OutOfGrid(gx, gy) THEN NoLane ELSE LaneOfCell(g, gx, gy, CellAt(g, gx, gy))

getLaneAt(g, x, y) == LaneAtTile(g, Floor(x), Floor(y))

getLaneCenter(laneOriginX, laneOriginY) ==
  [x |-> laneOriginX * Unit + (ROAD_LANE_SIZE * Unit) \div 2,
   y |-> laneOriginY * Unit + (ROAD_LANE_SIZE * Unit) \div 2]

NextLaneOf(nextOriginX, nextOriginY, nextCell) ==
  IF ~nextCell.present \/ ~isRoadTileType(nextCell.type) \/ ~nextCell.isOrigin
  THEN NoLane
  ELSE IF nextCell.laneDirection = "none" THEN NoLane
  ELSE [ok |-> TRUE, originX |-> nextOriginX, originY |-> nextOriginY,
        direction |-> nextCell.laneDirection, type |-> nextCell.type]

NextLaneAt(g, nextOriginX, nextOriginY) ==
  IF OutOfGrid(nextOriginX, nextOriginY) THEN NoLane
  ELSE NextLaneOf(nextOriginX, nextOriginY, CellAt(g, nextOriginX, nextOriginY))

(* variant: the next lane looked for one tile ahead, not one lane ahead *)
getNextLaneByTile(g, fromOriginX, fromOriginY, dir) ==
  NextLaneAt(g, fromOriginX + directionVectors[dir].dx,
                fromOriginY + directionVectors[dir].dy)

getNextLane(g, fromOriginX, fromOriginY, dir) ==
  NextLaneAt(g, fromOriginX + directionVectors[dir].dx * ROAD_LANE_SIZE,
                fromOriginY + directionVectors[dir].dy * ROAD_LANE_SIZE)

AnyEntry(nextLane, enteringFrom) == TRUE

canEnterLane(nextLane, enteringFrom) ==
  IF nextLane.direction = oppositeDirection[enteringFrom] THEN FALSE ELSE TRUE

IsLaneOrigin(cell) ==
  cell.present /\ cell.type = "RoadLane" /\ cell.isOrigin /\ cell.laneDirection # "none"

(* the lane origins spawnCar and relocateCarToRoad collect (RoadLane only) *)
laneOrigins(g) ==
  {o \in [x : 0..(GRID_WIDTH - 1), y : 0..(GRID_HEIGHT - 1)] :
     IsLaneOrigin(CellAt(g, o.x, o.y))}

LaneOrigins == [g \in Layouts |-> laneOrigins(g)]

Dist2(ax, ay, bx, by) == (ax - bx) * (ax - bx) + (ay - by) * (ay - by)

Abs(n) == IF n < 0 THEN -n ELSE n

CarIndices(cs) == 1..Len(cs)

(* ================ signal collaborator (crosswalk zones) ================= *)
CrosswalksOf(g) == DOMAIN LayoutCrosswalks[g]

(* getCrosswalkAt(x, y): the crosswalk whose zone holds the position, 0 for none *)
CrosswalkOfTile(g, tx, ty) ==
  IF \E c \in CrosswalksOf(g) : <<tx, ty>> \in LayoutCrosswalks[g][c]
  THEN CHOOSE c \in CrosswalksOf(g) : <<tx, ty>> \in LayoutCrosswalks[g][c]
  ELSE 0

getCrosswalkAt(g, x, y) == CrosswalkOfTile(g, Floor(x), Floor(y))

(* ====================== signal collaborator (cars) ====================== *)
AxisOf(dir) == IF dir \in {"up", "down"} THEN "ns" ELSE "ew"

getLightColor(lc, x, y, direction) == lc[AxisOf(direction)]

(* ====================== TrafficManager: car update ====================== *)
(* some car within 2.0 of the point c *)
isLaneOccupied(cs, c) ==
  \E i \in CarIndices(cs) : Dist2(cs[i].x, cs[i].y, c.x, c.y) < 4 * Unit * Unit

(* variant: the radius around the point ahead is 2.5 *)
BlocksFromWide(car, other, vec, aheadX, aheadY) ==
  /\ other.id # car.id
  /\ 4 * Dist2(other.x, other.y, aheadX, aheadY) < 25 * Unit * Unit
  /\ (other.x - car.x) * vec.dx + (other.y - car.y) * vec.dy > 0

(* the loop body of isBlockedByOtherCar for one other car *)
BlocksFrom(car, other, vec, aheadX, aheadY) ==
  /\ other.id # car.id
  /\ 4 * Dist2(other.x, other.y, aheadX, aheadY) < 9 * Unit * Unit
  /\ (other.x - car.x) * vec.dx + (other.y - car.y) * vec.dy > 0

BlockedAlong(car, cs, vec, checkDist) ==
  \E i \in CarIndices(cs) :
     BlocksFrom(car, cs[i], vec, car.x + vec.dx * checkDist, car.y + vec.dy * checkDist)

isBlockedByOtherCar(car, cs) ==
  BlockedAlong(car, cs, directionVectors[car.direction], 2 * Unit)

CanEnter(nextLane, dir) == nextLane.ok /\ canEnterLane(nextLane, dir)

(* first direction of the sequence dirs whose target lane can be entered; *)
(* "none" when there is none                                               *)
RECURSIVE FirstExit(_, _, _)
FirstExit(g, lane, dirs) ==
  IF dirs = <<>> THEN "none"
  ELSE IF CanEnter(getNextLane(g, lane.originX, lane.originY, Head(dirs)), Head(dirs))
  THEN Head(dirs)
  ELSE FirstExit(g, lane, Tail(dirs))

(* variant: the reverse tried before the turns *)
findExitBackFirst(g, lane, currentDir) ==
  FirstExit(g, lane, <<currentDir, oppositeDirection[currentDir],
                       rightTurnDirection[currentDir], leftTurnDirection[currentDir]>>)

findExit(g, lane, currentDir) ==
  FirstExit(g, lane, <<currentDir, rightTurnDirection[currentDir],
                       leftTurnDirection[currentDir], oppositeDirection[currentDir]>>)

(* variant: the target lane is not looked at for vehicles *)
LegalLane(cs, nextLane, dir) ==
  /\ nextLane.ok
  /\ canEnterLane(nextLane, dir)

ClearLane(cs, nextLane, dir) ==
  /\ nextLane.ok
  /\ canEnterLane(nextLane, dir)
  /\ ~isLaneOccupied(cs, getLaneCenter(nextLane.originX, nextLane.originY))

(* a direction whose target lane exists, can be entered and is clear *)
ClearExit(g, cs, lane, dir) ==
  ClearLane(cs, getNextLane(g, lane.originX, lane.originY, dir), dir)

RECURSIVE FirstClear(_, _, _, _)
FirstClear(g, cs, lane, dirs) ==
  IF dirs = <<>> THEN "none"
  ELSE IF ClearExit(g, cs, lane, Head(dirs)) THEN Head(dirs)
  ELSE FirstClear(g, cs, lane, Tail(dirs))

(* the two orders Math.random() < 0.5 picks between *)
TurnOrders(currentDir) ==
  {<<rightTurnDirection[currentDir], leftTurnDirection[currentDir]>>,
   <<leftTurnDirection[currentDir], rightTurnDirection[currentDir]>>}

(* every result of findTurnDirection, "none" for null *)
findTurnDirection(g, cs, lane, currentDir) ==
  {FirstClear(g, cs, lane, order) : order \in TurnOrders(currentDir)}

(* the 24 orders the shuffle can produce *)
Shuffles ==
  {s \in [1..4 -> Direction] : \A i, j \in 1..4 : i # j => s[i] # s[j]}

SkipHeading(s, heading) == SelectSeq(s, LAMBDA d : d # heading)

(* every result of findAnyExit, "none" for null *)
findAnyExit(g, cs, car, lane) ==
  {FirstClear(g, cs, lane, SkipHeading(s, car.direction)) : s \in Shuffles}

PlaceKeepsHeading(car, center, dir) ==
  [car EXCEPT !.x = center.x, !.y = center.y, !.waiting = 0]

PlaceAt(car, center, dir) ==
  [car EXCEPT !.x = center.x, !.y = center.y, !.direction = dir, !.waiting = 0]

relocateCarToRoad(g, car) ==
  IF LaneOrigins[g] = {} THEN {car}
  ELSE {PlaceAt(car, getLaneCenter(lane.x, lane.y), CellAt(g, lane.x, lane.y).laneDirection) :
          lane \in LaneOrigins[g]}

NearPoint(car, laneCenter) ==
  /\ Abs(car.x - laneCenter.x) < car.speed * 2
  /\ Abs(car.y - laneCenter.y) < car.speed * 2

atCenterOf(car, lane) == NearPoint(car, getLaneCenter(lane.originX, lane.originY))

TurnOrNone(lane) == IF lane.ok /\ lane.type = "RoadTurn" THEN lane ELSE NoLane

PickIntersection(g, direction, nextLane) ==
  IF nextLane.ok /\ nextLane.type = "RoadTurn" THEN nextLane
  ELSE IF nextLane.ok
  THEN TurnOrNone(getNextLane(g, nextLane.originX, nextLane.originY, direction))
  ELSE NoLane

(* RULE 2: the intersection lane one or two lanes ahead, NoLane if none *)
intersectionAheadOf(g, lane, direction) ==
  PickIntersection(g, direction, getNextLane(g, lane.originX, lane.originY, direction))

LightHalts(lc, direction, intersectionLane) ==
  /\ intersectionLane.ok
  /\ getLightColor(lc, intersectionLane.originX, intersectionLane.originY, direction)
       \in {"red", "yellow"}

(* variant: the signal rule left out *)
NeverHalted(g, lc, car, currentLane) == FALSE

haltedByLight(g, lc, car, currentLane) ==
  /\ atCenterOf(car, currentLane)
  /\ currentLane.type = "RoadLane"
  /\ LightHalts(lc, car.direction, intersectionAheadOf(g, currentLane, car.direction))

(* variant: the move leaves the waiting counter as it was *)
MoveKeepsWaiting(g, car, newDirection, newInIntersection, newX, newY) ==
  IF ~getLaneAt(g, newX, newY).ok
  THEN [car EXCEPT !.direction = newDirection, !.inIntersection = newInIntersection]
  ELSE [car EXCEPT !.x = newX, !.y = newY, !.direction = newDirection,
                   !.inIntersection = newInIntersection]

(* variant: the move builds the car afresh with the nominal speed *)
MoveResetsSpeed(g, car, newDirection, newInIntersection, newX, newY) ==
  IF ~getLaneAt(g, newX, newY).ok
  THEN [car EXCEPT !.direction = newDirection, !.waiting = 0, !.speed = CAR_SPEED,
                   !.inIntersection = newInIntersection]
  ELSE [car EXCEPT !.x = newX, !.y = newY, !.direction = newDirection, !.speed = CAR_SPEED,
                   !.waiting = 0, !.inIntersection = newInIntersection]

(* variant: the move is made whatever lies at the new position *)
MoveRegardless(g, car, newDirection, newInIntersection, newX, newY) ==
  [car EXCEPT !.x = newX, !.y = newY, !.direction = newDirection,
              !.waiting = 0, !.inIntersection = newInIntersection]

MoveTo(g, car, newDirection, newInIntersection, newX, newY) ==
  IF ~getLaneAt(g, newX, newY).ok
  THEN [car EXCEPT !.direction = newDirection, !.waiting = 0,
                   !.inIntersection = newInIntersection]
  ELSE [car EXCEPT !.x = newX, !.y = newY, !.direction = newDirection,
                   !.waiting = 0, !.inIntersection = newInIntersection]

(* RULE 5: move forward by speed along newDirection, or stop in place *)
moveForward(g, car, newDirection, newInIntersection) ==
  MoveTo(g, car, newDirection, newInIntersection,
         car.x + directionVectors[newDirection].dx * car.speed,
         car.y + directionVectors[newDirection].dy * car.speed)

Decision(dir, flag) == [stop |-> FALSE, direction |-> dir, inIntersection |-> flag]

DeadEnd == [stop |-> TRUE, direction |-> "none", inIntersection |-> FALSE]

(* variant: the flag is not cleared outside an intersection *)
FlagKept(flag, inIntersection) == flag

(* "if (!inIntersection) newInIntersection = false" *)
ClearedFlag(flag, inIntersection) == IF ~inIntersection THEN FALSE ELSE flag

ExitDecision(car, exit, inIntersection) ==
  IF exit # "none" THEN {Decision(exit, ClearedFlag(car.inIntersection, inIntersection))}
  ELSE {DeadEnd}

(* RULE 4 at the lane centre: the (newDirection, newInIntersection) pairs *)
CenterDecisions(g, cs, car, currentLane, inIntersection, canGoStraight) ==
  IF ~canGoStraight
  THEN ExitDecision(car, findExit(g, currentLane, car.direction), inIntersection)
  ELSE IF inIntersection /\ ~car.inIntersection
  THEN {Decision(d, TRUE) :
          d \in {car.direction} \cup
                (findTurnDirection(g, cs, currentLane, car.direction) \ {"none"})}
  ELSE {Decision(car.direction, ClearedFlag(car.inIntersection, inIntersection))}

decisions(g, cs, car, currentLane) ==
  IF atCenterOf(car, currentLane)
  THEN CenterDecisions(g, cs, car, currentLane, currentLane.type = "RoadTurn",
         CanEnter(getNextLane(g, currentLane.originX, currentLane.originY, car.direction),
                  car.direction))
  ELSE {Decision(car.direction,
                 ClearedFlag(car.inIntersection, currentLane.type = "RoadTurn"))}

ApplyDecision(g, car, currentLane, d) ==
  IF d.stop
  THEN [car EXCEPT !.waiting = 0, !.inIntersection = (currentLane.type = "RoadTurn")]
  ELSE moveForward(g, car, d.direction, d.inIntersection)

(* RULES 4 and 5: every car the decision and the move can produce *)
decideAndMove(g, cs, car, currentLane) ==
  {ApplyDecision(g, car, currentLane, d) : d \in decisions(g, cs, car, currentLane)}

(* variant: the escape offered on any lane *)
EscapesAnywhere(g, cs, car, currentLane) ==
  IF car.waiting > DEADLOCK_WAIT
  THEN findAnyExit(g, cs, car, currentLane) \ {"none", car.direction}
  ELSE {}

Escapes(g, cs, car, currentLane) ==
  IF car.waiting > DEADLOCK_WAIT /\ currentLane.type = "RoadTurn"
  THEN findAnyExit(g, cs, car, currentLane) \ {"none", car.direction}
  ELSE {}

(* variant: the blocked stop without the count *)
StopKeepsCount(car, inIntersection) ==
  [car EXCEPT !.inIntersection = IF inIntersection THEN car.inIntersection ELSE FALSE]

(* variant: the blocked stop clears the recorded flag *)
StopDropsFlag(car, inIntersection) ==
  [car EXCEPT !.waiting = car.waiting + 1, !.inIntersection = FALSE]

StopBlocked(car, inIntersection) ==
  [car EXCEPT !.waiting = car.waiting + 1,
              !.inIntersection = IF inIntersection THEN car.inIntersection ELSE FALSE]

(* variant: a blocked vehicle only ever waits *)
BlockedWaits(car, currentLane, escapes) ==
  {StopBlocked(car, currentLane.type = "RoadTurn")}

BlockedWith(car, currentLane, escapes) ==
  IF escapes # {}
  THEN {[car EXCEPT !.direction = escapeDir, !.waiting = 0, !.inIntersection = TRUE] :
          escapeDir \in escapes}
  ELSE {StopBlocked(car, currentLane.type = "RoadTurn")}

(* RULE 1: blocked by a car ahead *)
blockedOutcome(g, cs, car, currentLane) ==
  BlockedWith(car, currentLane, Escapes(g, cs, car, currentLane))

(* variant: the halt leaves the recorded flag as it was *)
haltedKeepsFlag(car) == [car EXCEPT !.waiting = car.waiting + 1]

(* RULE 2: halted by a red or yellow light *)
haltedOutcome(car) ==
  [car EXCEPT !.waiting = car.waiting + 1, !.inIntersection = FALSE]

UpdateOnLane(g, lc, cs, car, currentLane) ==
  IF ~currentLane.ok THEN relocateCarToRoad(g, car)
  ELSE IF isBlockedByOtherCar(car, cs) THEN blockedOutcome(g, cs, car, currentLane)
  ELSE IF haltedByLight(g, lc, car, currentLane) THEN {haltedOutcome(car)}
  ELSE decideAndMove(g, cs, car, currentLane)

(* every car updateSingleCar(car) can return, cs being the live this.cars *)
updateSingleCar(g, lc, cs, car) ==
  UpdateOnLane(g, lc, cs, car, getLaneAt(g, car.x, car.y))

(* variant: every car is updated against the list of the previous tick *)
updateCarsApart(g, lc, cs, i) ==
  {r \in [DOMAIN cs -> UNION {updateSingleCar(g, lc, cs, cs[j]) : j \in DOMAIN cs}] :
     \A j \in DOMAIN cs : r[j] \in updateSingleCar(g, lc, cs, cs[j])}

(* update(): cars[i] = updateSingleCar(cars[i]) for i = 0..n-1, each call  *)
(* reading the list as the earlier calls left it                           *)
RECURSIVE updateCarsFrom(_, _, _, _)
updateCarsFrom(g, lc, cs, i) ==
  IF i > Len(cs) THEN {cs}
  ELSE UNION {updateCarsFrom(g, lc, [cs EXCEPT ![i] = c2], i + 1) :
                c2 \in updateSingleCar(g, lc, cs, cs[i])}

(* generateId(): an id no agent of the list carries *)
FreshId(used) == CHOOSE n \in 1..(Cardinality(used) + 1) : n \notin used

CarIds(cs) == {cs[i].id : i \in CarIndices(cs)}

NeverTooClose(cs, center) == FALSE

TooClose(cs, center) ==
  \E i \in CarIndices(cs) :
     4 * Dist2(cs[i].x, cs[i].y, center.x, center.y) < 25 * Unit * Unit

NewCar(cs, center, dir, speed, carType) ==
  [id |-> FreshId(CarIds(cs)), x |-> center.x, y |-> center.y, direction |-> dir,
   speed |-> speed, waiting |-> 0, carType |-> carType, inIntersection |-> FALSE]

(* what a call of spawnCar leaves: the list and the boolean it returns *)
Spawned(cs, returned) == [cars |-> cs, returned |-> returned]

SpawnAt(cs, center, dir, speed, carType) ==
  IF TooClose(cs, center) THEN Spawned(cs, FALSE)
  ELSE Spawned(Append(cs, NewCar(cs, center, dir, speed, carType)), TRUE)

(* spawnCar() once laneOrigins is not empty, for the lane, speed and type  *)
(* drawn                                                                   *)
spawnCarOn(cs, g, lane, speed, carType) ==
  SpawnAt(cs, getLaneCenter(lane.x, lane.y), CellAt(g, lane.x, lane.y).laneDirection,
          speed, carType)

(* spawnCar(): every (list, return value) a call can leave *)
spawnCar(cs, g) ==
  IF LaneOrigins[g] = {} THEN {Spawned(cs, FALSE)}
  ELSE {spawnCarOn(cs, g, lane, speed, carType) :
          lane \in LaneOrigins[g], speed \in CarSpeeds, carType \in SPAWN_CAR_TYPES}

(* checkForPedestriansOnRoad: a crosswalk 2 to 4 tiles ahead with somebody *)
(* registered (no caller in updateSingleCar)                               *)
OccupiedAt(g, reg, cw) == cw # 0 /\ reg[cw] # {}

checkForPedestriansOnRoad(g, reg, carX, carY, direction) ==
  \E i \in 2..4 :
     OccupiedAt(g, reg, CrosswalkOfTile(g,
                  Floor(carX + directionVectors[direction].dx * i * Unit),
                  Floor(carY + directionVectors[direction].dy * i * Unit)))

(* =================== signal collaborator (crosswalks) =================== *)
removeFromAllCrosswalks(reg, id) == [c \in DOMAIN reg |-> reg[c] \ {id}]

AddTo(reg, id, cw) ==
  IF cw \in DOMAIN reg THEN [reg EXCEPT ![cw] = reg[cw] \cup {id}] ELSE reg

enterCrosswalk(g, reg, id, x, y) == AddTo(reg, id, getCrosswalkAt(g, x, y))

(* ====================== CitizenManager: helpers ========================= *)
CharIndices(chs) == 1..Len(chs)

CharIds(chs) == {chs[i].id : i \in CharIndices(chs)}

WalkableOrGrass(type) == type \in {"Sidewalk", "Tile", "Cobblestone", "Grass"}

isWalkableSurface(type) == type \in {"Sidewalk", "Tile", "Cobblestone"}

OnRoadType(type) == type = "RoadLane" \/ type = "RoadTurn"

(* this.grid[tileY]?.[tileX]?.type, "none" for undefined *)
TileTypeAt(g, tx, ty) == CellAt(g, tx, ty).type

(* E is what a character update reads besides the lists: the grid and the *)
(* collaborator's answers                                                  *)
Env(g, cc, w) == [grid |-> g, canCross |-> cc, canWalk |-> w]

WalkableType(E, tileType, x, y) ==
  IF isWalkableSurface(tileType) THEN TRUE
  ELSE IF tileType = "RoadTurn" THEN E.canWalk
  ELSE IF tileType = "RoadLane" THEN getCrosswalkAt(E.grid, x * Unit, y * Unit) # 0
  ELSE FALSE

(* variant: the bounds test answering for the tiles outside the grid *)
WalkableOffGrid(E, x, y) ==
  IF OutOfGrid(x, y) THEN TRUE ELSE WalkableType(E, TileTypeAt(E.grid, x, y), x, y)

(* isWalkable(x, y), called with tile coordinates *)
isWalkable(E, x, y) ==
  IF OutOfGrid(x, y) THEN FALSE ELSE WalkableType(E, TileTypeAt(E.grid, x, y), x, y)

CrossBySignal(E, cw, alreadyInCrossingMode) ==
  IF cw = 0 THEN TRUE ELSE E.canCross[cw]

(* variant: the signal is never asked *)
CrossAnyway(E, cw, alreadyInCrossingMode) == TRUE

CrossAllowed(E, cw, alreadyInCrossingMode) ==
  IF cw = 0 THEN TRUE
  ELSE IF alreadyInCrossingMode THEN TRUE
  ELSE E.canCross[cw]

canEnterCrosswalk(E, x, y, alreadyInCrossingMode) ==
  CrossAllowed(E, getCrosswalkAt(E.grid, x, y), alreadyInCrossingMode)

(* getValidDirections, in the order of allDirections *)
getValidDirections(E, tileX, tileY) ==
  SelectSeq(allDirections,
            LAMBDA dir : isWalkable(E, tileX + directionVectors[dir].dx,
                                       tileY + directionVectors[dir].dy))

SeqRange(s) == {s[i] : i \in DOMAIN s}

(* every direction pickNewDirection can return, "none" for null: with the *)
(* 60% draw it returns currentDir, which is one of the choices             *)
PickFrom(validDirs, preferredDirs) ==
  IF validDirs = {} THEN {"none"}
  ELSE IF preferredDirs # {} THEN preferredDirs
  ELSE validDirs

PickAmong(validDirs, currentDir) ==
  PickFrom(validDirs, validDirs \ {oppositeDirection[currentDir]})

pickNewDirection(E, tileX, tileY, currentDir) ==
  PickAmong(SeqRange(getValidDirections(E, tileX, tileY)), currentDir)

(* dist < 0.4 of the target *)
NearTarget(other, targetX, targetY) ==
  25 * Dist2(other.x, other.y, targetX, targetY) < 4 * Unit * Unit

(* getCharacterAhead(...) # null *)
getCharacterAhead(chs, char, targetX, targetY) ==
  \E i \in CharIndices(chs) :
     chs[i].id # char.id /\ NearTarget(chs[i], targetX, targetY)

FreeDirection(chs, char, dir) ==
  ~getCharacterAhead(chs, char, char.x + directionVectors[dir].dx * Half,
                                char.y + directionVectors[dir].dy * Half)

FirstFree(chs, char, alternatives) ==
  IF \E i \in DOMAIN alternatives : FreeDirection(chs, char, alternatives[i])
  THEN alternatives[CHOOSE i \in DOMAIN alternatives :
                      /\ FreeDirection(chs, char, alternatives[i])
                      /\ \A j \in 1..(i - 1) : ~FreeDirection(chs, char, alternatives[j])]
  ELSE "none"

Alternatives(validDirs, blockedDir) ==
  SelectSeq(validDirs, LAMBDA d : d # blockedDir /\ d # oppositeDirection[blockedDir])

findAlternateDirection(E, chs, char, tileX, tileY, blockedDir) ==
  FirstFree(chs, char, Alternatives(getValidDirections(E, tileX, tileY), blockedDir))

walkableTiles(g) ==
  {t \in [x : 0..(GRID_WIDTH - 1), y : 0..(GRID_HEIGHT - 1)] :
     isWalkableSurface(TileTypeAt(g, t.x, t.y))}

WalkableTiles == [g \in Layouts |-> walkableTiles(g)]

(* variant: the earlier registrations are kept when a crosswalk is entered *)
RegKeepsOld(g, reg, id, x, y, cw) ==
  IF cw # 0 THEN enterCrosswalk(g, reg, id, x, y)
  ELSE removeFromAllCrosswalks(reg, id)

(* ================== CitizenManager: character update ==================== *)
RegOnRoad(g, reg, id, x, y, cw) ==
  IF cw # 0 THEN enterCrosswalk(g, removeFromAllCrosswalks(reg, id), id, x, y)
  ELSE removeFromAllCrosswalks(reg, id)

RegLeft(reg, id, wasInCrossingMode, onRoadTile) ==
  IF wasInCrossingMode /\ ~onRoadTile THEN removeFromAllCrosswalks(reg, id) ELSE reg

(* the registry after updateCrosswalkRegistration *)
updateCrosswalkRegistration(g, reg, id, x, y, wasInCrossingMode, onRoadTile) ==
  RegLeft(IF onRoadTile THEN RegOnRoad(g, reg, id, x, y, getCrosswalkAt(g, x, y)) ELSE reg,
          id, wasInCrossingMode, onRoadTile)

Result(dir, wait, snap, inCw) ==
  [direction |-> dir, wait |-> wait, snapToCenter |-> snap, inCrosswalk |-> inCw]

Wander(char, picks) ==
  {Result(newDir, FALSE, TRUE, FALSE) : newDir \in picks \ {"none"}}

(* variant: the random direction change applies while crossing too *)
OnwardWandering(E, char, tileX, tileY, nowInCrossingMode, validDirs) ==
  {Result(char.direction, FALSE, FALSE, nowInCrossingMode)} \cup
  (IF Len(validDirs) > 2
   THEN Wander(char, pickNewDirection(E, tileX, tileY, char.direction))
   ELSE {})

(* next tile free to enter: the 10% random direction change, or straight on *)
Onward(E, char, tileX, tileY, nowInCrossingMode, validDirs) ==
  {Result(char.direction, FALSE, FALSE, nowInCrossingMode)} \cup
  (IF ~nowInCrossingMode /\ Len(validDirs) > 2
   THEN Wander(char, pickNewDirection(E, tileX, tileY, char.direction))
   ELSE {})

Turned(char, nowInCrossingMode, picks) ==
  {Result(IF newDir = "none" THEN char.direction ELSE newDir, FALSE, TRUE, nowInCrossingMode) :
     newDir \in picks}

(* variant: a pedestrian refused by the signal looks for another direction *)
CenterTurnsAway(E, char, tileX, tileY, nowInCrossingMode, nextWalkable, canEnterNext) ==
  IF ~nextWalkable \/ ~canEnterNext
  THEN IF nowInCrossingMode
       THEN {Result(char.direction, TRUE, TRUE, TRUE)}
       ELSE Turned(char, nowInCrossingMode,
                   pickNewDirection(E, tileX, tileY, char.direction))
  ELSE Onward(E, char, tileX, tileY, nowInCrossingMode,
              getValidDirections(E, tileX, tileY))

CenterResults(E, char, tileX, tileY, nowInCrossingMode, nextWalkable, canEnterNext) ==
  IF ~nextWalkable \/ ~canEnterNext
  THEN IF ~canEnterNext /\ nextWalkable
       THEN {Result(char.direction, TRUE, TRUE, nowInCrossingMode)}
       ELSE IF nowInCrossingMode
       THEN {Result(char.direction, TRUE, TRUE, TRUE)}
       ELSE Turned(char, nowInCrossingMode,
                   pickNewDirection(E, tileX, tileY, char.direction))
  ELSE Onward(E, char, tileX, tileY, nowInCrossingMode,
              getValidDirections(E, tileX, tileY))

NextWalkable(E, nextTileX, nextTileY, wasInCrossingMode) ==
  \/ isWalkable(E, nextTileX, nextTileY)
  \/ wasInCrossingMode /\ OnRoadType(TileTypeAt(E.grid, nextTileX, nextTileY))

CenterAt(E, char, tileX, tileY, nextTileX, nextTileY, wasInCrossingMode, nowInCrossingMode) ==
  CenterResults(E, char, tileX, tileY, nowInCrossingMode,
                NextWalkable(E, nextTileX, nextTileY, wasInCrossingMode),
                canEnterCrosswalk(E, nextTileX * Unit + Half, nextTileY * Unit + Half,
                                  wasInCrossingMode))

(* every result handleCenterDecision can return *)
handleCenterDecision(E, char, tileX, tileY, wasInCrossingMode, nowInCrossingMode) ==
  CenterAt(E, char, tileX, tileY,
           tileX + directionVectors[char.direction].dx,
           tileY + directionVectors[char.direction].dy,
           wasInCrossingMode, nowInCrossingMode)

(* a move still to be validated, or (hold) a character returned as it is *)
Tentative(dir, nextX, nextY) == [hold |-> FALSE, direction |-> dir, x |-> nextX, y |-> nextY]

Held(dir, x, y, inCw) == [hold |-> TRUE, direction |-> dir, x |-> x, y |-> y, inCrosswalk |-> inCw]

Sidestep(char, newDirection, nowInCrossingMode, altDir) ==
  IF altDir # "none"
  THEN Tentative(altDir, char.x + directionVectors[altDir].dx * char.speed,
                         char.y + directionVectors[altDir].dy * char.speed)
  ELSE Held(newDirection, char.x, char.y, nowInCrossingMode)

(* variant: the 70% branch is taken on road tiles as well *)
AvoidOnRoadToo(E, chs, char, tileX, tileY, nowInCrossingMode, newDirection, nextX, nextY) ==
  IF getCharacterAhead(chs, char, nextX, nextY)
  THEN {Tentative(newDirection, nextX, nextY),
        Sidestep(char, newDirection, nowInCrossingMode,
                 findAlternateDirection(E, chs, char, tileX, tileY, newDirection))}
  ELSE {Tentative(newDirection, nextX, nextY)}

(* soft collision avoidance: the 70% branch (off the road only) and the   *)
(* squeeze-by                                                              *)
Avoid(E, chs, char, tileX, tileY, nowInCrossingMode, newDirection, nextX, nextY) ==
  IF getCharacterAhead(chs, char, nextX, nextY) /\ ~nowInCrossingMode
  THEN {Tentative(newDirection, nextX, nextY),
        Sidestep(char, newDirection, nowInCrossingMode,
                 findAlternateDirection(E, chs, char, tileX, tileY, newDirection))}
  ELSE {Tentative(newDirection, nextX, nextY)}

Step(E, chs, char, tileX, tileY, nowInCrossingMode, newDirection, baseX, baseY) ==
  Avoid(E, chs, char, tileX, tileY, nowInCrossingMode, newDirection,
        baseX + directionVectors[newDirection].dx * char.speed,
        baseY + directionVectors[newDirection].dy * char.speed)

AfterDecision(E, chs, char, tileX, tileY, nowInCrossingMode, r) ==
  IF r.wait
  THEN {Held(char.direction, tileX * Unit + Half, tileY * Unit + Half, r.inCrosswalk)}
  ELSE Step(E, chs, char, tileX, tileY, nowInCrossingMode, r.direction,
            IF r.snapToCenter THEN tileX * Unit + Half ELSE char.x,
            IF r.snapToCenter THEN tileY * Unit + Half ELSE char.y)

NearCenter(char, tileX, tileY) ==
  /\ Abs((char.x - tileX * Unit) - Half) < char.speed * 3
  /\ Abs((char.y - tileY * Unit) - Half) < char.speed * 3

NoDecision(char) == Result(char.direction, FALSE, FALSE, FALSE)

Moves(E, chs, char, tileX, tileY, wasInCrossingMode, nowInCrossingMode) ==
  UNION {AfterDecision(E, chs, char, tileX, tileY, nowInCrossingMode, r) :
           r \in IF NearCenter(char, tileX, tileY)
                 THEN handleCenterDecision(E, char, tileX, tileY,
                                           wasInCrossingMode, nowInCrossingMode)
                 ELSE {NoDecision(char)}}

(* variant: a committed move records the flag as false *)
LandedClearsFlag(char, tileX, tileY, nowInCrossingMode, m, finalIsRoad, finalOk) ==
  IF ~finalOk
  THEN [char EXCEPT !.x = tileX * Unit + Half, !.y = tileY * Unit + Half,
                    !.direction = m.direction, !.inCrosswalk = nowInCrossingMode]
  ELSE [char EXCEPT !.x = m.x, !.y = m.y, !.direction = m.direction,
                    !.inCrosswalk = FALSE]

(* variant: a committed move records the flag of the tile it left *)
LandedKeepsFlag(char, tileX, tileY, nowInCrossingMode, m, finalIsRoad, finalOk) ==
  IF ~finalOk
  THEN [char EXCEPT !.x = tileX * Unit + Half, !.y = tileY * Unit + Half,
                    !.direction = m.direction, !.inCrosswalk = nowInCrossingMode]
  ELSE [char EXCEPT !.x = m.x, !.y = m.y, !.direction = m.direction,
                    !.inCrosswalk = nowInCrossingMode]

Landed(char, tileX, tileY, nowInCrossingMode, m, finalIsRoad, finalOk) ==
  IF ~finalOk
  THEN [char EXCEPT !.x = tileX * Unit + Half, !.y = tileY * Unit + Half,
                    !.direction = m.direction, !.inCrosswalk = nowInCrossingMode]
  ELSE [char EXCEPT !.x = m.x, !.y = m.y, !.direction = m.direction,
                    !.inCrosswalk = finalIsRoad]

FinalOk(E, m, finalTileX, finalTileY, finalIsRoad, wasInCrossingMode) ==
  /\ isWalkable(E, finalTileX, finalTileY) \/ (wasInCrossingMode /\ finalIsRoad)
  /\ canEnterCrosswalk(E, m.x, m.y, wasInCrossingMode)

ValidateAt(E, char, tileX, tileY, wasInCrossingMode, nowInCrossingMode, m, finalIsRoad) ==
  Landed(char, tileX, tileY, nowInCrossingMode, m, finalIsRoad,
         FinalOk(E, m, Floor(m.x), Floor(m.y), finalIsRoad, wasInCrossingMode))

(* "Validate final position" *)
Validate(E, char, tileX, tileY, wasInCrossingMode, nowInCrossingMode, m) ==
  IF m.hold
  THEN [char EXCEPT !.x = m.x, !.y = m.y, !.direction = m.direction,
                    !.inCrosswalk = m.inCrosswalk]
  ELSE ValidateAt(E, char, tileX, tileY, wasInCrossingMode, nowInCrossingMode, m,
                  OnRoadType(TileTypeAt(E.grid, Floor(m.x), Floor(m.y))))

(* variant: with no walkable tile the character is returned as it is *)
relocateOrKeep(g, char) ==
  IF WalkableTiles[g] # {}
  THEN {[char EXCEPT !.x = newTile.x * Unit + Half, !.y = newTile.y * Unit + Half,
                     !.direction = dir, !.inCrosswalk = FALSE] :
          newTile \in WalkableTiles[g], dir \in Direction}
  ELSE {char}

relocateToWalkable(g, char) ==
  IF WalkableTiles[g] # {}
  THEN {[char EXCEPT !.x = newTile.x * Unit + Half, !.y = newTile.y * Unit + Half,
                     !.direction = dir, !.inCrosswalk = FALSE] :
          newTile \in WalkableTiles[g], dir \in Direction}
  ELSE {[char EXCEPT !.inCrosswalk = FALSE]}

(* what an update leaves: the character (or the list), the registry and   *)
(* whether it ended by throwing                                            *)
Outcome(char, reg) == [char |-> char, reg |-> reg, threw |-> FALSE]

Thrown(char, reg) == [char |-> char, reg |-> reg, threw |-> TRUE]

(* isWalkable: this.grid[gy][gx].type for a tile inside the bounds whose   *)
(* row or cell the grid does not have (a TypeError). The grids of Layouts  *)
(* have every cell or none, so the read of the current tile is the only    *)
(* one that can meet a missing cell.                                       *)
WalkableThrows(g, x, y) == ~OutOfGrid(x, y) /\ ~CellAt(g, x, y).present

UpdateOnTile(E, reg1, chs, char, tileX, tileY, wasInCrossingMode, onRoadTile) ==
  IF WalkableThrows(E.grid, tileX, tileY) THEN {Thrown(char, reg1)}
  ELSE IF ~(isWalkable(E, tileX, tileY) \/ (wasInCrossingMode /\ onRoadTile))
  THEN {Outcome(c, removeFromAllCrosswalks(reg1, char.id)) :
          c \in relocateToWalkable(E.grid, char)}
  ELSE {Outcome(Validate(E, char, tileX, tileY, wasInCrossingMode, onRoadTile, m), reg1) :
          m \in Moves(E, chs, char, tileX, tileY, wasInCrossingMode, onRoadTile)}

UpdateAt(E, reg, chs, char, tileX, tileY, onRoadTile) ==
  UpdateOnTile(E, updateCrosswalkRegistration(E.grid, reg, char.id, char.x, char.y,
                                             char.inCrosswalk, onRoadTile),
               chs, char, tileX, tileY, char.inCrosswalk, onRoadTile)

(* every (character, registry) updateSingleCharacter(char) can leave, chs *)
(* being the live this.characters                                          *)
updateSingleCharacter(E, reg, chs, char) ==
  UpdateAt(E, reg, chs, char, Floor(char.x), Floor(char.y),
           OnRoadType(TileTypeAt(E.grid, Floor(char.x), Floor(char.y))))

(* update(): characters[i] = updateSingleCharacter(characters[i]) in order *)
RECURSIVE updateCharactersFrom(_, _, _, _)
updateCharactersFrom(E, reg, chs, i) ==
  IF i > Len(chs) THEN {Outcome(chs, reg)}
  ELSE UNION {IF o.threw THEN {Thrown(chs, o.reg)}
              ELSE updateCharactersFrom(E, o.reg, [chs EXCEPT ![i] = o.char], i + 1) :
                o \in updateSingleCharacter(E, reg, chs, chs[i])}

NewCharacter(chs, tile, dir, speed, characterType) ==
  [id |-> FreshId(CharIds(chs)), x |-> tile.x * Unit + Half, y |-> tile.y * Unit + Half,
   direction |-> dir, speed |-> speed, characterType |-> characterType,
   inCrosswalk |-> FALSE]

(* what a call of spawnCharacter leaves: the list and the character it    *)
(* returns, <<>> for null                                                  *)
Walker(chs, returned) == [characters |-> chs \o returned, returned |-> returned]

(* spawnCharacter(): every (list, return value) a call can leave *)
spawnCharacter(chs, g) ==
  IF WalkableTiles[g] = {} THEN {Walker(chs, <<>>)}
  ELSE {Walker(chs, <<NewCharacter(chs, tile, dir, speed, characterType)>>) :
          tile \in WalkableTiles[g], dir \in Direction,
          speed \in CharacterSpeeds, characterType \in SPAWN_CHARACTER_TYPES}

RemoveFirst(chs, index) == Tail(chs)

RemoveAt(chs, index) == SubSeq(chs, 1, index - 1) \o SubSeq(chs, index + 1, Len(chs))

KeepRegistered(reg, ids) == reg

(* variant: the clearing loop leaves one character out *)
clearSkipsOne(reg, ids) ==
  IF ids = {} THEN reg
  ELSE [c \in DOMAIN reg |-> reg[c] \ (ids \ {CHOOSE id \in ids : TRUE})]

RECURSIVE removeAllFrom(_, _)
removeAllFrom(reg, ids) ==
  IF ids = {} THEN reg
  ELSE removeAllFrom(removeFromAllCrosswalks(reg, CHOOSE id \in ids : TRUE),
                     ids \ {CHOOSE id \in ids : TRUE})

(* ============================ car actions ============================== *)
PedUnchanged == UNCHANGED <<characters, pedestrianIds, canCross, canWalk, raised>>

SpawnCar(cap) ==
  /\ Len(cars) < cap
  /\ \E r \in spawnCar(cars, grid) : cars' = r.cars
  /\ UNCHANGED <<grid, lightColor>>
  /\ PedUnchanged

UpdateCarsWithin(cap) ==
  /\ \A i \in CarIndices(cars) : cars[i].waiting < cap
  /\ cars' \in updateCarsFrom(grid, lightColor, cars, 1)
  /\ UNCHANGED <<grid, lightColor>>
  /\ PedUnchanged

UpdateCars == UpdateCarsWithin(MaxWaiting)

(* variant: clearing the vehicles also empties the crosswalk sets *)
ClearCarsAndSets ==
  /\ cars' = <<>>
  /\ pedestrianIds' = [c \in CrosswalkIds |-> {}]
  /\ UNCHANGED <<grid, lightColor, characters, canCross, canWalk, raised>>

ClearCars ==
  /\ cars' = <<>>
  /\ UNCHANGED <<grid, lightColor>>
  /\ PedUnchanged

SetLight ==
  /\ \E axis \in Axes, color \in Colors :
        /\ lightColor[axis] # color
        /\ lightColor' = [lightColor EXCEPT ![axis] = color]
  /\ UNCHANGED <<grid, cars>>
  /\ PedUnchanged

SetGrid(layouts) ==
  /\ \E g \in layouts : g # grid /\ grid' = g
  /\ UNCHANGED <<cars, lightColor>>
  /\ PedUnchanged

(* ========================= character actions =========================== *)
CarUnchanged == UNCHANGED <<cars, lightColor>>

SpawnCharacter(cap) ==
  /\ Len(characters) < cap
  /\ \E r \in spawnCharacter(characters, grid) : characters' = r.characters
  /\ UNCHANGED <<grid, pedestrianIds, canCross, canWalk, raised>>
  /\ CarUnchanged

UpdateCharacters ==
  /\ \E o \in updateCharactersFrom(Env(grid, canCross, canWalk), pedestrianIds, characters, 1) :
        /\ characters' = o.char
        /\ pedestrianIds' = o.reg
        /\ raised' = (raised \/ o.threw)
  /\ UNCHANGED <<grid, canCross, canWalk>>
  /\ CarUnchanged

RemoveCharacter ==
  /\ \E index \in CharIndices(characters) :
        /\ pedestrianIds' = removeFromAllCrosswalks(pedestrianIds, characters[index].id)
        /\ characters' = RemoveAt(characters, index)
  /\ UNCHANGED <<grid, canCross, canWalk, raised>>
  /\ CarUnchanged

ClearCharacters ==
  /\ pedestrianIds' = removeAllFrom(pedestrianIds, CharIds(characters))
  /\ characters' = <<>>
  /\ UNCHANGED <<grid, canCross, canWalk, raised>>
  /\ CarUnchanged

SetCanCross ==
  /\ \E c \in CrosswalksOf(grid) : canCross' = [canCross EXCEPT ![c] = ~canCross[c]]
  /\ UNCHANGED <<grid, characters, pedestrianIds, canWalk, raised>>
  /\ CarUnchanged

SetCanWalk ==
  /\ canWalk' = ~canWalk
  /\ UNCHANGED <<grid, characters, pedestrianIds, canCross, raised>>
  /\ CarUnchanged

(* ========================== specifications ============================== *)
EditLayouts == {"city", "shift", "alley", "empty"}

InitWith(layouts, lights) ==
  /\ grid \in layouts
  /\ cars = <<>>
  /\ characters = <<>>
  /\ lightColor \in lights
  /\ pedestrianIds = [c \in CrosswalkIds |-> {}]
  /\ canCross = [c \in CrosswalkIds |-> FALSE]
  /\ canWalk = FALSE
  /\ raised = FALSE

AllRed == [a \in Axes |-> "red"]

(* vehicles only, on the city grid or before any grid was set *)
InitTraffic == InitWith({"city", "empty"}, [Axes -> Colors])

NextTraffic ==
  \/ SpawnCar(MaxCars)
  \/ UpdateCars
  \/ ClearCars
  \/ SetLight

SpecTraffic == InitTraffic /\ [][NextTraffic]_vars

(* one vehicle, the driver editing the map under it *)
InitEdit == InitWith(EditLayouts, [Axes -> Colors])

NextEdit ==
  \/ SpawnCar(MaxEditCars)
  \/ UpdateCars
  \/ ClearCars
  \/ SetLight
  \/ SetGrid(EditLayouts)

SpecEdit == InitEdit /\ [][NextEdit]_vars

(* pedestrians only, on the plaza grid *)
InitCitizens == InitWith({"plaza"}, {AllRed})

NextCitizens ==
  \/ SpawnCharacter(MaxCharacters)
  \/ UpdateCharacters
  \/ RemoveCharacter
  \/ ClearCharacters
  \/ SetCanCross
  \/ SetCanWalk

SpecCitizens == InitCitizens /\ [][NextCitizens]_vars

(* both managers on the joint grid *)
Init == InitWith({"joint"}, [Axes -> Colors])

Next ==
  \/ SpawnCar(MaxJointCars)
  \/ UpdateCars
  \/ ClearCars
  \/ SetLight
  \/ SpawnCharacter(MaxJointCharacters)
  \/ UpdateCharacters
  \/ RemoveCharacter
  \/ ClearCharacters
  \/ SetCanCross
  \/ SetCanWalk

Spec == Init /\ [][Next]_vars

(* two vehicles on the city grid, or two pedestrians on the alley *)
InitTown == InitWith({"city", "alley"}, {AllRed, [a \in Axes |-> "green"]})

NextTown ==
  \/ SpawnCar(MaxCars)
  \/ UpdateCars
  \/ ClearCars
  \/ SpawnCharacter(MaxCrowd)
  \/ UpdateCharacters
  \/ RemoveCharacter
  \/ ClearCharacters
  \/ SetCanCross

SpecTown == InitTown /\ [][NextTown]_vars

(* one pedestrian, the driver replacing the grid under it *)
RezoneLayouts == {"plaza", "alley", "city", "empty"}

InitRezone == InitWith({"plaza"}, {AllRed})

NextRezone ==
  \/ SpawnCharacter(MaxCharacters)
  \/ UpdateCharacters
  \/ RemoveCharacter
  \/ ClearCharacters
  \/ SetCanCross
  \/ SetCanWalk
  \/ SetGrid(RezoneLayouts)

SpecRezone == InitRezone /\ [][NextRezone]_vars

(* two vehicles on the knot, every light green, waiting long enough for  *)
(* the deadlock escape                                                     *)
InitKnot == InitWith({"knot"}, {[a \in Axes |-> "green"]})

NextKnot ==
  \/ SpawnCar(MaxKnotCars)
  \/ UpdateCarsWithin(MaxKnotWaiting)
  \/ ClearCars

SpecKnot == InitKnot /\ [][NextKnot]_vars

(* two vehicles on the knot or on the shift grid, whose intersection has   *)
(* no lane straight ahead                                                  *)
InitJunctions == InitWith({"knot", "shift"}, {[a \in Axes |-> "green"]})

SpecJunctions == InitJunctions /\ [][NextKnot]_vars

(* one pedestrian between two crosswalks side by side *)
InitTwin == InitWith({"twin"}, {AllRed})

NextTwin ==
  \/ SpawnCharacter(MaxCharacters)
  \/ UpdateCharacters
  \/ RemoveCharacter
  \/ ClearCharacters
  \/ SetCanCross

SpecTwin == InitTwin /\ [][NextTwin]_vars

(* one vehicle on a loop of straight lanes, the driver switching between   *)
(* it and the city grid                                                    *)
RingLayouts == {"ring", "city"}

InitRing == InitWith(RingLayouts, [Axes -> Colors])

NextRing ==
  \/ SpawnCar(MaxEditCars)
  \/ UpdateCars
  \/ ClearCars
  \/ SetLight
  \/ SetGrid(RingLayouts)

SpecRing == InitRing /\ [][NextRing]_vars

(* one vehicle and one pedestrian on the joint grid, the lights left green *)
InitShared == InitWith({"joint"}, {[a \in Axes |-> "green"]})

NextShared ==
  \/ SpawnCar(MaxJointCars)
  \/ UpdateCars
  \/ ClearCars
  \/ SpawnCharacter(MaxJointCharacters)
  \/ UpdateCharacters
  \/ RemoveCharacter
  \/ ClearCharacters
  \/ SetCanCross
  \/ SetCanWalk

SpecShared == InitShared /\ [][NextShared]_vars

(* two vehicles queueing on the joint grid, the lights left green *)
InitQueue == InitWith({"joint"}, {[a \in Axes |-> "green"]})

NextQueue ==
  \/ SpawnCar(MaxCars)
  \/ UpdateCars
  \/ ClearCars

SpecQueue == InitQueue /\ [][NextQueue]_vars

(* ============================== properties ============================== *)
OnRoad(g, a) == OnRoadType(TileTypeAt(g, Floor(a.x), Floor(a.y)))

RegisteredIn(reg, id) == \E c \in DOMAIN reg : id \in reg[c]

(* C1: after any operation of the pedestrian manager, a crosswalk lists a   *)
(* pedestrian id only if that pedestrian stands in the crosswalk's zone.   *)
RegistryMatchesPositions ==
  \A c \in CrosswalkIds : \A id \in pedestrianIds[c] :
     \E i \in CharIndices(characters) :
        /\ characters[i].id = id
        /\ getCrosswalkAt(grid, characters[i].x, characters[i].y) = c

(* C2: a pedestrian that begins an update off the road (it left the road   *)
(* in an earlier update, or was never on it) is in no crosswalk set when   *)
(* that update ends.                                                       *)
ClearedAfterLeavingRoad ==
  [][UpdateCharacters =>
       \A i \in CharIndices(characters) :
          ~OnRoad(grid, characters[i]) =>
             ~RegisteredIn(pedestrianIds', characters[i].id)]_vars

(* the list the update of car i reads in an UpdateCars step: the cars      *)
(* before it already updated                                               *)
SeenBy(i) == [j \in CarIndices(cars) |-> IF j < i THEN cars'[j] ELSE cars[j]]

LaneOfCar(car) == getLaneAt(grid, car.x, car.y)

(* at the decision point of a straight lane with an intersection one or    *)
(* two lanes ahead                                                         *)
AtSignalOn(car, lane) ==
  /\ lane.ok
  /\ lane.type = "RoadLane"
  /\ atCenterOf(car, lane)
  /\ intersectionAheadOf(grid, lane, car.direction).ok

AtSignal(car) == AtSignalOn(car, LaneOfCar(car))

FacesStop(car) == lightColor[AxisOf(car.direction)] \in {"red", "yellow"}

SamePlace(a, b) == a.x = b.x /\ a.y = b.y

HeadingOnLane(car, lane) ==
  (lane.ok /\ lane.type = "RoadLane" /\ ~atCenterOf(car, lane)) =>
     car.direction = lane.direction

HeadingFollowsLane ==
  \A i \in CarIndices(cars) : HeadingOnLane(cars[i], LaneOfCar(cars[i]))

(* C5: a pedestrian whose crossing flag is true and that is on a road tile *)
(* after a step still has the flag true.                                   *)
CrossingFlagPersists ==
  [][\A i \in CharIndices(characters) : \A j \in CharIndices(characters') :
        (/\ characters[i].id = characters'[j].id
         /\ characters[i].inCrosswalk
         /\ OnRoad(grid, characters'[j])) => characters'[j].inCrosswalk]_vars

MidCrossing ==
  \E i \in CharIndices(characters) :
     /\ characters[i].inCrosswalk
     /\ characters[i].direction = "down"
     /\ Floor(characters[i].y) = 2
     /\ getCrosswalkAt(grid, characters[i].x, characters[i].y) # 0

(* C6 (as stated): the waiting counter is zero after a tick that changed   *)
(* the position, and it grows in a tick only if another vehicle blocks the *)
(* vehicle in that tick.                                                   *)
WaitingOnlyWhenBlocked ==
  [][UpdateCars =>
       \A i \in CarIndices(cars) :
          /\ ~SamePlace(cars[i], cars'[i]) => cars'[i].waiting = 0
          /\ cars'[i].waiting > cars[i].waiting =>
                isBlockedByOtherCar(cars[i], SeenBy(i))]_vars

(* C6 (amended): the waiting counter is zero after a tick that changed the *)
(* position, and it grows in a tick only if the vehicle is blocked by      *)
(* another vehicle or halted at a red or yellow light in that tick.        *)
WaitingOnlyWhenStopped ==
  [][UpdateCars =>
       \A i \in CarIndices(cars) :
          /\ ~SamePlace(cars[i], cars'[i]) => cars'[i].waiting = 0
          /\ cars'[i].waiting > cars[i].waiting =>
                \/ isBlockedByOtherCar(cars[i], SeenBy(i))
                \/ AtSignal(cars[i]) /\ FacesStop(cars[i])]_vars

(* a vehicle that waited at the light and has since moved on *)
MovedOnAfterWaiting ==
  \E i \in CarIndices(cars) :
     /\ cars[i].waiting = 0
     /\ LaneOfCar(cars[i]).type = "RoadTurn"
     /\ cars[i].inIntersection
     /\ \E j \in CarIndices(cars) : j # i /\ cars[j].waiting > 1 /\ AtSignal(cars[j])

(* C7: a vehicle does not change position in a tick that finds a           *)
(* pedestrian registered in a crosswalk 2 to 4 tiles ahead of it.          *)
CarsYieldToPedestrians ==
  [][UpdateCars =>
       \A i \in CarIndices(cars) :
          checkForPedestriansOnRoad(grid, pedestrianIds, cars[i].x, cars[i].y,
                                    cars[i].direction)
             => SamePlace(cars[i], cars'[i])]_vars

InGrid(a) == ~OutOfGrid(Floor(a.x), Floor(a.y))

(* C8: the floored position of every vehicle and of every pedestrian is a  *)
(* cell inside the GRID_WIDTH x GRID_HEIGHT grid.                          *)
AgentsInBounds ==
  /\ \A i \in CarIndices(cars) : InGrid(cars[i])
  /\ \A i \in CharIndices(characters) : InGrid(characters[i])

(* a vehicle stopped at the dead end of the last lane, a pedestrian that   *)
(* walked off the crosswalk onto the bottom row, heading for the edge      *)
AgentsAtTheEdge ==
  /\ \E i \in CarIndices(cars) :
        /\ LaneOfCar(cars[i]).type = "RoadTurn"
        /\ atCenterOf(cars[i], LaneOfCar(cars[i]))
  /\ \E i \in CharIndices(characters) :
        /\ Floor(characters[i].y) = GRID_HEIGHT - 1
        /\ characters[i].direction = "down"
        /\ characters[i].y < (GRID_HEIGHT - 1) * Unit + Half

Halted(car, after) ==
  /\ after.waiting = car.waiting + 1
  /\ SamePlace(car, after)
  /\ after.direction = car.direction

(* C9 (as stated): a vehicle halted by a red or yellow light at the        *)
(* decision point has waiting one more, position and heading unchanged,    *)
(* and the inside-intersection flag it had before the tick.                *)
HaltKeepsFlag ==
  [][UpdateCars =>
       \A i \in CarIndices(cars) :
          (/\ AtSignal(cars[i]) /\ FacesStop(cars[i])
           /\ ~isBlockedByOtherCar(cars[i], SeenBy(i))) =>
             /\ Halted(cars[i], cars'[i])
             /\ cars'[i].inIntersection = cars[i].inIntersection]_vars

(* C9 (amended): a vehicle halted by a red or yellow light at the decision *)
(* point has waiting one more, position and heading unchanged, and the     *)
(* inside-intersection flag false after the tick.                          *)
HaltClearsFlag ==
  [][UpdateCars =>
       \A i \in CarIndices(cars) :
          (/\ AtSignal(cars[i]) /\ FacesStop(cars[i])
           /\ ~isBlockedByOtherCar(cars[i], SeenBy(i))) =>
             /\ Halted(cars[i], cars'[i])
             /\ cars'[i].inIntersection = FALSE]_vars

(* a vehicle halted at the light of the grid the driver switched to *)
HaltedAfterEdit ==
  \E i \in CarIndices(cars) :
     /\ grid = "shift"
     /\ AtSignal(cars[i])
     /\ FacesStop(cars[i])
     /\ cars[i].waiting > 0
     /\ ~cars[i].inIntersection

Escaped(car, after) ==
  /\ car.waiting > DEADLOCK_WAIT
  /\ after.waiting = 0
  /\ after.direction # car.direction

(* a step forward along the heading the vehicle had *)
Advanced(car, after) ==
  /\ after.x = car.x + directionVectors[car.direction].dx * car.speed
  /\ after.y = car.y + directionVectors[car.direction].dy * car.speed

StepAhead(car) ==
  [x |-> car.x + directionVectors[car.direction].dx * car.speed,
   y |-> car.y + directionVectors[car.direction].dy * car.speed]

Cruising(car, lane) == lane.ok /\ ~atCenterOf(car, lane)

(* C10: a vehicle whose blocked-ahead check is true when its update runs   *)
(* keeps its position, and its waiting counter grows by exactly one unless *)
(* the deadlock escape is taken; a vehicle that is not blocked and is      *)
(* between decision points advances by its speed when there is lane ahead. *)
BlockedCarWaits ==
  [][UpdateCars =>
       \A i \in CarIndices(cars) :
          IF isBlockedByOtherCar(cars[i], SeenBy(i))
          THEN /\ SamePlace(cars[i], cars'[i])
               /\ cars'[i].waiting = cars[i].waiting + 1 \/ Escaped(cars[i], cars'[i])
          ELSE (/\ Cruising(cars[i], LaneOfCar(cars[i]))
                /\ LaneOfCar(StepAhead(cars[i])).ok) => Advanced(cars[i], cars'[i])]_vars

(* the trailing vehicle held behind a leader on the same lane *)
HeldBehindLeader ==
  \E i \in CarIndices(cars) : \E j \in CarIndices(cars) :
     /\ i # j
     /\ isBlockedByOtherCar(cars[i], cars)
     /\ cars[i].waiting > 0
     /\ cars[j].waiting = 0
     /\ cars[i].y = cars[j].y
     /\ cars[i].direction = cars[j].direction

(* ------------------------------------------------------------------------ *)
(* C20  canEnterLane(lane, heading) is false exactly when lane.direction is *)
(* the opposite of heading, and true for every other combination of the     *)
(* four cardinal directions.                                                *)
HeadOn == {<<"up", "down">>, <<"down", "up">>, <<"left", "right">>, <<"right", "left">>}

LaneWith(originX, originY, dir, type) ==
  [ok |-> TRUE, originX |-> originX, originY |-> originY, direction |-> dir, type |-> type]

EntryRefusedOnlyHeadOn ==
  \A laneDir \in Direction, heading \in Direction, type \in {"RoadLane", "RoadTurn"} :
    \A o \in {<<0, 0>>} \cup {<<Floor(cars[i].x), Floor(cars[i].y)>> : i \in CarIndices(cars)} :
      canEnterLane(LaneWith(o[1], o[2], laneDir, type), heading)
        = (<<laneDir, heading>> \notin HeadOn)

(* a car at the centre of a lane with one neighbouring lane it may not      *)
(* enter and another it may                                                 *)
RefusedAndAdmitted ==
  \E i \in CarIndices(cars) :
    /\ LaneOfCar(cars[i]).ok
    /\ atCenterOf(cars[i], LaneOfCar(cars[i]))
    /\ \E d \in Direction :
         /\ getNextLane(grid, LaneOfCar(cars[i]).originX, LaneOfCar(cars[i]).originY, d).ok
         /\ <<getNextLane(grid, LaneOfCar(cars[i]).originX,
                          LaneOfCar(cars[i]).originY, d).direction, d>> \in HeadOn
    /\ \E d \in Direction :
         /\ getNextLane(grid, LaneOfCar(cars[i]).originX, LaneOfCar(cars[i]).originY, d).ok
         /\ <<getNextLane(grid, LaneOfCar(cars[i]).originX,
                          LaneOfCar(cars[i]).originY, d).direction, d>> \notin HeadOn

(* ------------------------------------------------------------------------ *)
(* C11  A pedestrian whose crossing flag is set at the start of a tick is   *)
(* not halted or snapped back because canCrossAtCrosswalk is false: in a     *)
(* crosswalk zone that denies entry, with road or plain walkable surface     *)
(* ahead, the entry check passes at the next-tile decision and at the final  *)
(* validation, and the update moves it on by its speed along its heading.    *)
OpenTile(g, tx, ty) ==
  /\ ~OutOfGrid(tx, ty)
  /\ TileTypeAt(g, tx, ty) \in {"Sidewalk", "Tile", "Cobblestone", "RoadLane", "RoadTurn"}

AheadX(char) == char.x + directionVectors[char.direction].dx * char.speed

AheadY(char) == char.y + directionVectors[char.direction].dy * char.speed

CrossingDenied(char) ==
  /\ char.inCrosswalk
  /\ OnRoad(grid, char)
  /\ getCrosswalkAt(grid, char.x, char.y) # 0
  /\ ~canCross[getCrosswalkAt(grid, char.x, char.y)]
  /\ OpenTile(grid, Floor(char.x) + directionVectors[char.direction].dx,
                    Floor(char.y) + directionVectors[char.direction].dy)
  /\ OpenTile(grid, Floor(AheadX(char)), Floor(AheadY(char)))

FinishesCrossing ==
  [][UpdateCharacters =>
       \A i \in CharIndices(characters) :
          CrossingDenied(characters[i]) =>
            /\ canEnterCrosswalk(Env(grid, canCross, canWalk),
                 (Floor(characters[i].x) + directionVectors[characters[i].direction].dx)
                    * Unit + Half,
                 (Floor(characters[i].y) + directionVectors[characters[i].direction].dy)
                    * Unit + Half,
                 characters[i].inCrosswalk)
            /\ canEnterCrosswalk(Env(grid, canCross, canWalk), AheadX(characters[i]),
                                 AheadY(characters[i]), characters[i].inCrosswalk)
            /\ characters'[i].x = AheadX(characters[i])
            /\ characters'[i].y = AheadY(characters[i])
            /\ characters'[i].direction = characters[i].direction]_vars

(* on the second tile of the crossing, at its centre, the signal denying    *)
(* entry: the decision for the tile after it is taken against the signal    *)
CrossingAgainstSignal ==
  \E i \in CharIndices(characters) :
     /\ CrossingDenied(characters[i])
     /\ characters[i].x = Floor(characters[i].x) * Unit + Half
     /\ characters[i].y = Floor(characters[i].y) * Unit + Half
     /\ CrosswalkOfTile(grid,
                         Floor(characters[i].x) - directionVectors[characters[i].direction].dx,
                         Floor(characters[i].y) - directionVectors[characters[i].direction].dy) # 0

(* ------------------------------------------------------------------------ *)
(* C14  spawnCar() returns false and leaves the vehicle list unchanged when *)
(* the grid has no RoadLane origin cell with a direction, or when the centre *)
(* of the lane drawn is closer than 2.5 to an existing vehicle; otherwise it *)
(* appends exactly one vehicle, at the centre of that lane, with the lane's  *)
(* direction and waiting counter 0, and returns true.                        *)
StraightBlocks(g) == {b \in LayoutBlocks[g] : b.type = "RoadLane" /\ b.dir \in Direction}

OriginOf(b) == [x |-> b.ox, y |-> b.oy]

CrowdedAt(cs, b) ==
  \E i \in CarIndices(cs) :
     4 * (((b.ox + 1) * Unit - cs[i].x) * ((b.ox + 1) * Unit - cs[i].x)
          + ((b.oy + 1) * Unit - cs[i].y) * ((b.oy + 1) * Unit - cs[i].y)) < 25 * Unit * Unit

AppendsOneAt(cs, r, b) ==
  /\ r.returned = TRUE
  /\ Len(r.cars) = Len(cs) + 1
  /\ SubSeq(r.cars, 1, Len(cs)) = cs
  /\ r.cars[Len(r.cars)].x = (b.ox + 1) * Unit
  /\ r.cars[Len(r.cars)].y = (b.oy + 1) * Unit
  /\ r.cars[Len(r.cars)].direction = b.dir
  /\ r.cars[Len(r.cars)].waiting = 0

SpawnOutcomes(cs, all, blocks) ==
  /\ blocks = {} => \A r \in all : r.returned = FALSE /\ r.cars = cs
  /\ \A b \in blocks :
        IF CrowdedAt(cs, b)
        THEN \E r \in all : r.returned = FALSE /\ r.cars = cs
        ELSE \E r \in all : AppendsOneAt(cs, r, b)
  /\ \A r \in all :
        \/ /\ r.returned = FALSE
           /\ r.cars = cs
           /\ (blocks = {} \/ \E b \in blocks : CrowdedAt(cs, b))
        \/ \E b \in blocks : ~CrowdedAt(cs, b) /\ AppendsOneAt(cs, r, b)

SpawnCarContract == SpawnOutcomes(cars, spawnCar(cars, grid), StraightBlocks(grid))

(* a vehicle was spawned and stands where one lane's centre is too close to *)
(* it and another lane's is not                                            *)
SpawnedNearOneLane ==
  /\ Len(cars) = 1
  /\ \E b \in StraightBlocks(grid) : CrowdedAt(cars, b)
  /\ \E b \in StraightBlocks(grid) : ~CrowdedAt(cars, b)

(* ------------------------------------------------------------------------ *)
(* C13  After clearCars() the vehicle count is zero; after clearCharacters() *)
(* the pedestrian count is zero and no crosswalk set contains the id of any  *)
(* pedestrian that was in the list before the call.                          *)
ClearLeavesNothing ==
  [][/\ ClearCars => Len(cars') = 0
     /\ ClearCharacters =>
          /\ Len(characters') = 0
          /\ \A id \in CharIds(characters) : ~RegisteredIn(pedestrianIds', id)]_vars

(* what clearCharacters is about to act on: two pedestrians, both listed   *)
(* by a crosswalk, one of them already off the road (a stale id)            *)
StaleBeforeClear ==
  /\ Len(characters) = 2
  /\ \A i \in CharIndices(characters) : RegisteredIn(pedestrianIds, characters[i].id)
  /\ \E i \in CharIndices(characters) : ~OnRoad(grid, characters[i])

(* ------------------------------------------------------------------------ *)
(* C16  update() of either manager never adds, removes or reorders agents   *)
(* and never changes an agent's id, speed or type tag: the list after the    *)
(* update has the same ids in the same order, and with zero agents update    *)
(* changes nothing at all.                                                   *)
SameCars(before, after) ==
  /\ Len(after) = Len(before)
  /\ \A i \in 1..Len(before) :
        /\ after[i].id = before[i].id
        /\ after[i].speed = before[i].speed
        /\ after[i].carType = before[i].carType

SameCharacters(before, after) ==
  /\ Len(after) = Len(before)
  /\ \A i \in 1..Len(before) :
        /\ after[i].id = before[i].id
        /\ after[i].speed = before[i].speed
        /\ after[i].characterType = before[i].characterType

UpdateKeepsAgents ==
  [][/\ UpdateCars =>
          /\ SameCars(cars, cars')
          /\ cars = <<>> => UNCHANGED vars
     /\ UpdateCharacters =>
          /\ SameCharacters(characters, characters')
          /\ characters = <<>> => UNCHANGED vars]_vars

(* two pedestrians listed against the order of their ids (one was removed  *)
(* and another spawned), both moved off the tile centres they started on    *)
ListedOutOfIdOrder ==
  /\ Len(characters) = 2
  /\ characters[1].id > characters[2].id
  /\ \A i \in CharIndices(characters) :
        \/ characters[i].x # Floor(characters[i].x) * Unit + Half
        \/ characters[i].y # Floor(characters[i].y) * Unit + Half

(* ------------------------------------------------------------------------ *)
(* C12  removeCharacter(id) for a pedestrian in the list removes exactly    *)
(* that pedestrian and leaves no crosswalk set containing its id, however    *)
(* many crosswalks listed it before the call.                                *)
Without(chs, index) ==
  [j \in 1..(Len(chs) - 1) |-> IF j < index THEN chs[j] ELSE chs[j + 1]]

RemoveTakesOne ==
  [][/\ RemoveCharacter =>
          \E index \in CharIndices(characters) :
             /\ characters' = Without(characters, index)
             /\ ~RegisteredIn(pedestrianIds', characters[index].id)
     /\ \A id \in CharIds(characters) :
          \A reg \in [1..2 -> SUBSET CharIds(characters)] :
             ~RegisteredIn(removeFromAllCrosswalks(reg, id), id)]_vars

(* the first pedestrian spawned was removed: the second is what the list     *)
(* holds, and the crosswalk still lists it                                   *)
SecondLeftListed ==
  /\ Len(characters) = 1
  /\ characters[1].id = 2
  /\ RegisteredIn(pedestrianIds, 2)

(* ------------------------------------------------------------------------ *)
(* C17  A vehicle whose position resolves to no lane at the start of its    *)
(* update is placed by that update at the centre of a RoadLane block, with   *)
(* that lane's direction and waiting counter 0, when the grid has a RoadLane *)
(* origin with a direction; it is left unchanged when the grid has none.     *)
OffLane(car) == ~LaneOfCar(car).ok

PlacedOn(car, b) ==
  /\ car.x = (b.ox + 1) * Unit
  /\ car.y = (b.oy + 1) * Unit
  /\ car.direction = b.dir
  /\ car.waiting = 0

OffLaneCarRelocated ==
  [][UpdateCars =>
       \A i \in CarIndices(cars) :
          OffLane(cars[i]) =>
            IF StraightBlocks(grid) # {}
            THEN \E b \in StraightBlocks(grid) : PlacedOn(cars'[i], b)
            ELSE cars'[i] = cars[i]]_vars

(* the grid was replaced under a vehicle that had been waiting: it stands   *)
(* on no lane of the new grid, which has straight lanes elsewhere, heading   *)
(* as none of them does                                                      *)
StrandedAfterEdit ==
  \E i \in CarIndices(cars) :
     /\ OffLane(cars[i])
     /\ cars[i].waiting > 0
     /\ StraightBlocks(grid) # {}
     /\ \A b \in StraightBlocks(grid) : b.dir # cars[i].direction

(* the same with a grid that has no straight lane with a direction *)
StrandedWithoutLanes ==
  \E i \in CarIndices(cars) :
     OffLane(cars[i]) /\ cars[i].waiting > 0 /\ StraightBlocks(grid) = {}

(* ------------------------------------------------------------------------ *)
(* C19  No call of update() on the vehicle or the pedestrian manager raises *)
(* an exception, for any grid supplied through setGrid (an empty grid        *)
(* included) and any agent list reachable by spawn, update, remove, clear.   *)
(* The vehicle update has no raising step (all its grid reads are optional-  *)
(* chained); raised records a TypeError of the pedestrian update.            *)
UpdateNeverRaises == ~raised

(* ------------------------------------------------------------------------ *)
(* C15  spawnCharacter() returns absent and leaves the pedestrian list      *)
(* unchanged if and only if the grid has no plain walkable tile; otherwise   *)
(* it appends exactly one pedestrian, at the centre of such a tile, with the *)
(* crossing flag false.                                                      *)
AtCentreOf(a, t) == a.x = t[1] * Unit + Half /\ a.y = t[2] * Unit + Half

SpawnsOneOn(chs, r, plain) ==
  /\ Len(r.returned) = 1
  /\ r.characters = Append(chs, r.returned[1])
  /\ r.returned[1].inCrosswalk = FALSE
  /\ \E t \in plain : AtCentreOf(r.returned[1], t)

SpawnCharacterOutcomes(chs, all, plain) ==
  \A r \in all :
     /\ (r.returned = <<>>) <=> (plain = {})
     /\ r.returned = <<>> => r.characters = chs
     /\ r.returned # <<>> => SpawnsOneOn(chs, r, plain)

SpawnCharacterContract ==
  SpawnCharacterOutcomes(characters, spawnCharacter(characters, grid), LayoutWalk[grid])

(* a pedestrian was spawned, its update raised on the empty grid, it was     *)
(* removed, and the grid now has no plain walkable tile to spawn on          *)
NothingToSpawnOn ==
  /\ characters = <<>>
  /\ LayoutWalk[grid] = {}
  /\ raised

(* ------------------------------------------------------------------------ *)
(* C18 (as stated)  A pedestrian whose current tile fails the walkability   *)
(* gate (not a plain walkable surface, not a road tile it was already        *)
(* crossing, not an intersection tile the signal allows, not a road-lane     *)
(* tile inside a crosswalk zone) is moved by that update to the centre of a  *)
(* plain walkable tile, with its crossing flag false and its id in no        *)
(* crosswalk set. Stated for a tile that is a cell of the grid (the gate     *)
(* cannot be evaluated for a missing cell: C19).                             *)
GateFailsOn(char, type, tx, ty) ==
  /\ type \notin {"Sidewalk", "Tile", "Cobblestone"}
  /\ ~(char.inCrosswalk /\ type \in {"RoadLane", "RoadTurn"})
  /\ ~(type = "RoadTurn" /\ canWalk)
  /\ ~(type = "RoadLane" /\ CrosswalkOfTile(grid, tx, ty) # 0)

GateFails(char) ==
  GateFailsOn(char, TileTypeAt(grid, Floor(char.x), Floor(char.y)),
              Floor(char.x), Floor(char.y))

Cleared(i) ==
  /\ ~characters'[i].inCrosswalk
  /\ ~RegisteredIn(pedestrianIds', characters[i].id)

KnotTick == UpdateCarsWithin(MaxKnotWaiting)

(* the lane the heading dir leads to from the lane the car is on *)
TargetOf(car, dir) ==
  getNextLane(grid, LaneOfCar(car).originX, LaneOfCar(car).originY, dir)

(* the lane exists, is legal to enter and has no vehicle within 2.0 of its *)
(* center, all vehicles of the list counted                                *)
OpenTarget(cs, lane, dir) ==
  /\ lane.ok
  /\ lane.direction # oppositeDirection[dir]
  /\ \A k \in CarIndices(cs) :
        Dist2(cs[k].x, cs[k].y, getLaneCenter(lane.originX, lane.originY).x,
              getLaneCenter(lane.originX, lane.originY).y) >= 4 * Unit * Unit

EscapeAllowed(car, cs, after) ==
  /\ car.waiting > DEADLOCK_WAIT
  /\ LaneOfCar(car).type = "RoadTurn"
  /\ OpenTarget(cs, TargetOf(car, after.direction), after.direction)
  /\ after.waiting = 0

(* C28: a blocked vehicle keeps its position; it changes heading only with *)
(* waiting above 60 on an intersection tile, to a heading whose target     *)
(* lane exists, is legal to enter and has no vehicle within 2.0 of its     *)
(* center, and the counter is then 0; otherwise the heading is unchanged.  *)
EscapeOnlyWhenDeadlocked ==
  [][KnotTick =>
       \A i \in CarIndices(cars) :
          (LaneOfCar(cars[i]).ok /\ isBlockedByOtherCar(cars[i], SeenBy(i))) =>
             /\ SamePlace(cars[i], cars'[i])
             /\ \/ cars'[i].direction = cars[i].direction
                \/ EscapeAllowed(cars[i], SeenBy(i), cars'[i])]_vars

(* a vehicle blocked inside the intersection past the threshold, with an   *)
(* open lane on another heading                                            *)
EscapeDue(car, cs) ==
  /\ LaneOfCar(car).ok
  /\ LaneOfCar(car).type = "RoadTurn"
  /\ isBlockedByOtherCar(car, cs)
  /\ car.waiting > DEADLOCK_WAIT
  /\ \E dir \in Direction \ {car.direction} : OpenTarget(cs, TargetOf(car, dir), dir)

DeadlockedWithWayOut == \E i \in CarIndices(cars) : EscapeDue(cars[i], cars)

(* a vehicle blocked on a straight lane past the threshold with an open    *)
(* lane on another heading                                                 *)
StuckOnLane ==
  \E i \in CarIndices(cars) :
     /\ LaneOfCar(cars[i]).ok
     /\ LaneOfCar(cars[i]).type = "RoadLane"
     /\ isBlockedByOtherCar(cars[i], cars)
     /\ cars[i].waiting > DEADLOCK_WAIT
     /\ \E dir \in Direction \ {cars[i].direction} :
           OpenTarget(cars, TargetOf(cars[i], dir), dir)

(* ------------------------------------------------------------------------ *)
InsideBlocked(car, cs) ==
  /\ LaneOfCar(car).ok
  /\ LaneOfCar(car).type = "RoadTurn"
  /\ isBlockedByOtherCar(car, cs)

WayOut(car, cs) ==
  \E dir \in Direction \ {car.direction} : OpenTarget(cs, TargetOf(car, dir), dir)

(* C29: a vehicle blocked inside an intersection counts one more tick      *)
(* while its counter is at most 60, and at the first blocked tick with the *)
(* counter above 60 and an open lane on another heading it takes the       *)
(* escape: a new heading and the counter at 0.                             *)
EscapeTakenWhenDue ==
  [][KnotTick =>
       \A i \in CarIndices(cars) :
          InsideBlocked(cars[i], SeenBy(i)) =>
             IF cars[i].waiting > DEADLOCK_WAIT
             THEN WayOut(cars[i], SeenBy(i)) =>
                     /\ cars'[i].direction # cars[i].direction
                     /\ cars'[i].waiting = 0
             ELSE cars'[i].waiting = cars[i].waiting + 1]_vars

(* a vehicle inside the intersection heading across its lane outside the   *)
(* decision window, the counter at 0: the state an escape leaves           *)
JustEscaped ==
  \E i \in CarIndices(cars) :
     /\ LaneOfCar(cars[i]).ok
     /\ LaneOfCar(cars[i]).type = "RoadTurn"
     /\ ~atCenterOf(cars[i], LaneOfCar(cars[i]))
     /\ cars[i].waiting = 0
     /\ cars[i].inIntersection
     /\ IF cars[i].direction \in {"left", "right"}
        THEN Abs(cars[i].y - getLaneCenter(LaneOfCar(cars[i]).originX,
                                           LaneOfCar(cars[i]).originY).y) >= 2 * cars[i].speed
        ELSE Abs(cars[i].x - getLaneCenter(LaneOfCar(cars[i]).originX,
                                           LaneOfCar(cars[i]).originY).x) >= 2 * cars[i].speed

(* ------------------------------------------------------------------------ *)
(* the tick took the vehicle from one lane block into another one whose    *)
(* direction is the opposite of the heading it now has                     *)
EnteredHeadOn(car, after) ==
  /\ LaneOfCar(car).ok
  /\ LaneOfCar(after).ok
  /\ <<LaneOfCar(after).originX, LaneOfCar(after).originY>> #
       <<LaneOfCar(car).originX, LaneOfCar(car).originY>>
  /\ LaneOfCar(after).direction = oppositeDirection[after.direction]

(* C21 (as stated): no tick moves a vehicle from one lane block into a     *)
(* different lane block whose direction is the exact opposite of the       *)
(* heading the vehicle has after that tick.                                *)
NoHeadOnEntry ==
  [][KnotTick =>
       \A i \in CarIndices(cars) : ~EnteredHeadOn(cars[i], cars'[i])]_vars

(* ------------------------------------------------------------------------ *)
(* the lane the heading dir leads to exists and is not head-on *)
Legal(car, dir) ==
  /\ TargetOf(car, dir).ok
  /\ TargetOf(car, dir).direction # oppositeDirection[dir]

(* the first of right turn, left turn and reverse that is legal *)
SearchedExit(car) ==
  IF Legal(car, rightTurnDirection[car.direction]) THEN rightTurnDirection[car.direction]
  ELSE IF Legal(car, leftTurnDirection[car.direction]) THEN leftTurnDirection[car.direction]
  ELSE IF Legal(car, oppositeDirection[car.direction]) THEN oppositeDirection[car.direction]
  ELSE "none"

(* a vehicle whose update reaches the decision of RULE 4 at a lane centre *)
Deciding(car, cs) ==
  /\ LaneOfCar(car).ok
  /\ atCenterOf(car, LaneOfCar(car))
  /\ ~isBlockedByOtherCar(car, cs)
  /\ ~haltedByLight(grid, lightColor, car, LaneOfCar(car))

StraightOrRolledTurn(car, after) ==
  \/ after.direction = car.direction
  \/ /\ LaneOfCar(car).type = "RoadTurn"
     /\ ~car.inIntersection
     /\ after.direction \in {rightTurnDirection[car.direction],
                             leftTurnDirection[car.direction]}
     /\ Legal(car, after.direction)

OneStep(car, after) ==
  /\ after.x = car.x + directionVectors[after.direction].dx * car.speed
  /\ after.y = car.y + directionVectors[after.direction].dy * car.speed

(* C30: at the decision point a vehicle whose straight-ahead lane is legal *)
(* keeps its heading (or takes the turn rolled on entering an              *)
(* intersection) and searches no exit; otherwise it heads for the first of *)
(* right turn, left turn and reverse that is legal and advances, and with  *)
(* none legal it halts with position and heading unchanged.                *)
ExitBySearchOnlyWhenNeeded ==
  [][KnotTick =>
       \A i \in CarIndices(cars) :
          Deciding(cars[i], SeenBy(i)) =>
             IF Legal(cars[i], cars[i].direction)
             THEN StraightOrRolledTurn(cars[i], cars'[i])
             ELSE IF SearchedExit(cars[i]) = "none"
             THEN SamePlace(cars[i], cars'[i]) /\ cars'[i].direction = cars[i].direction
             ELSE /\ cars'[i].direction = SearchedExit(cars[i])
                  /\ OneStep(cars[i], cars'[i])]_vars

(* at a lane centre with the straight lane not legal, the left turn and    *)
(* the reverse both legal and the right turn not                           *)
LeftTurnBeforeReverse ==
  \E i \in CarIndices(cars) :
     /\ Deciding(cars[i], cars)
     /\ ~Legal(cars[i], cars[i].direction)
     /\ ~Legal(cars[i], rightTurnDirection[cars[i].direction])
     /\ Legal(cars[i], leftTurnDirection[cars[i].direction])
     /\ Legal(cars[i], oppositeDirection[cars[i].direction])

(* ------------------------------------------------------------------------ *)
(* the update of this vehicle evaluates the probabilistic turn: at the     *)
(* centre of an intersection tile, the straight lane legal, the flag false *)
Rolls(car, cs) ==
  /\ Deciding(car, cs)
  /\ LaneOfCar(car).type = "RoadTurn"
  /\ Legal(car, car.direction)
  /\ ~car.inIntersection

StaysInside(car, after) ==
  /\ LaneOfCar(car).ok
  /\ LaneOfCar(car).type = "RoadTurn"
  /\ LaneOfCar(after).ok
  /\ LaneOfCar(after).type = "RoadTurn"

(* C23: the tick that evaluates the turn decision leaves the flag set, and *)
(* a vehicle that stays on intersection tiles keeps a set flag through     *)
(* every tick, blocked ticks included, so that no later tick of the        *)
(* traversal evaluates the decision again.                                 *)
TurnRolledOncePerTraversal ==
  [][KnotTick =>
       \A i \in CarIndices(cars) :
          /\ Rolls(cars[i], SeenBy(i)) => cars'[i].inIntersection
          /\ (StaysInside(cars[i], cars'[i]) /\ cars[i].inIntersection) =>
                /\ cars'[i].inIntersection
                /\ ~Rolls(cars'[i], cars')]_vars

(* a vehicle held up inside the intersection after its turn decision *)
BlockedAfterTheRoll ==
  \E i \in CarIndices(cars) :
     /\ LaneOfCar(cars[i]).ok
     /\ LaneOfCar(cars[i]).type = "RoadTurn"
     /\ cars[i].inIntersection
     /\ cars[i].waiting > 0
     /\ isBlockedByOtherCar(cars[i], cars)

(* ------------------------------------------------------------------------ *)
(* C26: whatever spawnCharacter, update, removeCharacter and               *)
(* clearCharacters did before, every id in a crosswalk's pedestrian set is *)
(* the id of a pedestrian of the manager's list.                           *)
RegisteredAreListed ==
  \A c \in DOMAIN pedestrianIds : pedestrianIds[c] \subseteq CharIds(characters)

(* the first pedestrian was removed and another spawned after it, which    *)
(* the crosswalk now lists                                                 *)
ReplacementRegistered ==
  /\ Len(characters) = 2
  /\ characters[1].id = 2
  /\ RegisteredIn(pedestrianIds, characters[2].id)

(* ------------------------------------------------------------------------ *)
AtMostOneCrosswalk ==
  \A c, d \in DOMAIN pedestrianIds : c # d => pedestrianIds[c] \cap pedestrianIds[d] = {}

(* the update put the id into the set of crosswalk c *)
Entered(id, c) == id \in pedestrianIds'[c] /\ id \notin pedestrianIds[c]

(* C25: no pedestrian id is in the sets of two crosswalks, and an update   *)
(* enters a pedestrian into a crosswalk's set only when the tile it stands *)
(* on is a road tile and its position lies in that crosswalk's zone.       *)
OneCrosswalkEnteredFromItsZone ==
  /\ []AtMostOneCrosswalk
  /\ [][UpdateCharacters =>
          \A i \in CharIndices(characters) : \A c \in DOMAIN pedestrianIds :
             Entered(characters[i].id, c) =>
                /\ OnRoad(grid, characters[i])
                /\ getCrosswalkAt(grid, characters[i].x, characters[i].y) = c]_vars

(* a pedestrian on the sidewalk that the first crosswalk still lists       *)
(* (it crossed there), facing the zone of the second                       *)
StaleAtTheOtherCrosswalk ==
  \E i \in CharIndices(characters) :
     /\ characters[i].id \in pedestrianIds[1]
     /\ ~OnRoad(grid, characters[i])
     /\ CrosswalkOfTile(grid,
           Floor(characters[i].x) + directionVectors[characters[i].direction].dx,
           Floor(characters[i].y) + directionVectors[characters[i].direction].dy) = 2

(* ------------------------------------------------------------------------ *)
Crossing(char) == char.inCrosswalk /\ OnRoad(grid, char)

(* C24: a pedestrian that begins an update on a road tile with its         *)
(* crossing flag set has the same heading when the update ends.            *)
CrossingKeepsHeading ==
  [][UpdateCharacters =>
       \A i \in CharIndices(characters) :
          Crossing(characters[i]) =>
             characters'[i].direction = characters[i].direction]_vars

(* a crossing pedestrian at the centre of a road tile from which more than *)
(* two directions are walkable: where the wander rule would apply          *)
CrossingAtABranch ==
  \E i \in CharIndices(characters) :
     /\ Crossing(characters[i])
     /\ NearCenter(characters[i], Floor(characters[i].x), Floor(characters[i].y))
     /\ Len(getValidDirections(Env(grid, canCross, canWalk),
                               Floor(characters[i].x), Floor(characters[i].y))) > 2

(* ------------------------------------------------------------------------ *)
(* a position the walkability rules deny to a pedestrian that is not       *)
(* crossing: a crosswalk zone whose signal refuses, a road-lane tile       *)
(* outside every zone, an intersection tile while walking through is off   *)
Denied(char) ==
  \/ /\ getCrosswalkAt(grid, char.x, char.y) # 0
     /\ ~canCross[getCrosswalkAt(grid, char.x, char.y)]
  \/ /\ TileTypeAt(grid, Floor(char.x), Floor(char.y)) = "RoadLane"
     /\ getCrosswalkAt(grid, char.x, char.y) = 0
  \/ /\ TileTypeAt(grid, Floor(char.x), Floor(char.y)) = "RoadTurn"
     /\ ~canWalk

(* C22 (as stated): a pedestrian whose crossing flag is false when a tick  *)
(* begins never ends that tick inside a crosswalk zone whose signal        *)
(* refuses, on a road-lane tile outside every zone, or on an intersection  *)
(* tile closed to walking.                                                 *)
NeverEndsOnDeniedRoad ==
  [][UpdateCharacters =>
       \A i \in CharIndices(characters) :
          ~characters[i].inCrosswalk => ~Denied(characters'[i])]_vars

(* C22 (amended): the same for a pedestrian that begins the tick off the   *)
(* road; one that begins it on a road tile with the flag false is either   *)
(* relocated or left on its tile.                                          *)
NeverStepsOntoDeniedRoad ==
  [][UpdateCharacters =>
       \A i \in CharIndices(characters) :
          (~characters[i].inCrosswalk /\ ~OnRoad(grid, characters[i])) =>
             ~Denied(characters'[i])]_vars

(* a pedestrian on the sidewalk, the flag false, about to step into a      *)
(* crosswalk zone whose signal refuses                                     *)
HeldAtTheKerb ==
  \E i \in CharIndices(characters) :
     /\ ~characters[i].inCrosswalk
     /\ ~OnRoad(grid, characters[i])
     /\ getCrosswalkAt(grid, AheadX(characters[i]), AheadY(characters[i])) # 0
     /\ ~canCross[getCrosswalkAt(grid, AheadX(characters[i]), AheadY(characters[i]))]

(* ------------------------------------------------------------------------ *)
(* the list the update of pedestrian i reads in an UpdateCharacters step   *)
SeenByCharacter(i) ==
  [j \in CharIndices(characters) |-> IF j < i THEN characters'[j] ELSE characters[j]]

(* C27: in one update() pass the agent at index i is updated against the   *)
(* list in which the agents below i already carry their new positions and  *)
(* the agents above i still carry those of the previous tick.              *)
UpdateReadsLiveList ==
  [][/\ UpdateCars =>
          \A i \in CarIndices(cars) :
             cars'[i] \in updateSingleCar(grid, lightColor, SeenBy(i), cars[i])
     /\ (UpdateCharacters /\ ~raised') =>
          \A i \in CharIndices(characters) :
             characters'[i] \in
               {o.char : o \in updateSingleCharacter(Env(grid, canCross, canWalk),
                                  pedestrianIds, SeenByCharacter(i), characters[i])}]_vars

Swapped(s) == <<s[2], s[1]>>

AsSet(s) == {s[i] : i \in DOMAIN s}

(* two vehicles for which the tick gives other results when the list is in *)
(* the other order                                                         *)
OrderDecidesTheTick ==
  /\ Len(cars) = 2
  /\ {AsSet(r) : r \in updateCarsFrom(grid, lightColor, cars, 1)} #
       {AsSet(r) : r \in updateCarsFrom(grid, lightColor, Swapped(cars), 1)}

(* ------------------------------------------------------------------------ *)
(* at the centre of an intersection tile with the flag still false *)
FirstEntry(car, cs) ==
  /\ Deciding(car, cs)
  /\ LaneOfCar(car).type = "RoadTurn"
  /\ ~car.inIntersection

Turns(car) == {rightTurnDirection[car.direction], leftTurnDirection[car.direction]}

TurnOnlyIntoOpenLane(car, cs, after) ==
  /\ after.direction \in Turns(car) =>
        OpenTarget(cs, TargetOf(car, after.direction), after.direction)
  /\ (\A t \in Turns(car) : ~OpenTarget(cs, TargetOf(car, t), t)) =>
        after.direction = car.direction

(* C31 (as stated): on first entry into an intersection the heading        *)
(* changes to a left or right turn only if that turn's target lane exists, *)
(* is legal to enter and has no vehicle within 2.0 of its center; if       *)
(* neither turn qualifies the heading stays straight.                      *)
TurnsOnlyIntoOpenLanes ==
  [][KnotTick =>
       \A i \in CarIndices(cars) :
          FirstEntry(cars[i], SeenBy(i)) =>
             TurnOnlyIntoOpenLane(cars[i], SeenBy(i), cars'[i])]_vars

(* C31 (amended): the same for a vehicle whose straight-ahead lane exists  *)
(* and is legal to enter, the case in which the turn is rolled.            *)
RolledTurnOnlyIntoOpenLane ==
  [][KnotTick =>
       \A i \in CarIndices(cars) :
          Rolls(cars[i], SeenBy(i)) =>
             TurnOnlyIntoOpenLane(cars[i], SeenBy(i), cars'[i])]_vars

(* a vehicle about to roll its turn while the one legal turn leads to a    *)
(* lane with a vehicle near its center                                     *)
TurnTargetTaken ==
  \E i \in CarIndices(cars) :
     /\ Rolls(cars[i], cars)
     /\ \E t \in Turns(cars[i]) :
           /\ Legal(cars[i], t)
           /\ ~OpenTarget(cars, TargetOf(cars[i], t), t)

(* ------------------------------------------------------------------------ *)
(* the position one step of the vehicle's speed along dir *)
Displaced(car, dir) ==
  [x |-> car.x + directionVectors[dir].dx * car.speed,
   y |-> car.y + directionVectors[dir].dy * car.speed]

AtStraightLaneCenter(after) ==
  \E b \in StraightBlocks(grid) :
     after.x = (b.ox + 1) * Unit /\ after.y = (b.oy + 1) * Unit

(* the update reaches the move of RULE 5 or the dead-end stop before it *)
FreeToMove(car, cs) ==
  /\ LaneOfCar(car).ok
  /\ ~isBlockedByOtherCar(car, cs)
  /\ ~haltedByLight(grid, lightColor, car, LaneOfCar(car))

(* C32: in a tick a vehicle keeps its position, or moves by exactly its    *)
(* speed along the heading it has afterwards to a position on a lane, or   *)
(* (off the road) is set to the center of a straight lane; when the        *)
(* position one step along the new heading is on no lane it keeps its      *)
(* position, with the new heading recorded and the waiting counter 0.      *)
MovesByItsSpeedOrStays ==
  [][UpdateCars =>
       \A i \in CarIndices(cars) :
          /\ \/ SamePlace(cars[i], cars'[i])
             \/ /\ OneStep(cars[i], cars'[i])
                /\ LaneOfCar(cars'[i]).ok
             \/ /\ OffLane(cars[i])
                /\ AtStraightLaneCenter(cars'[i])
          /\ (/\ FreeToMove(cars[i], SeenBy(i))
              /\ ~LaneOfCar(Displaced(cars[i], cars'[i].direction)).ok) =>
                /\ SamePlace(cars[i], cars'[i])
                /\ cars'[i].waiting = 0]_vars

(* a vehicle between lane centers, free to move, whose next position is on *)
(* no lane                                                                 *)
RoadEndsAhead ==
  \E i \in CarIndices(cars) :
     /\ FreeToMove(cars[i], cars)
     /\ ~atCenterOf(cars[i], LaneOfCar(cars[i]))
     /\ ~LaneOfCar(Displaced(cars[i], cars[i].direction)).ok

(* ------------------------------------------------------------------------ *)
NoIntersections(g) == \A b \in LayoutBlocks[g] : b.type = "RoadLane"

(* the vehicle stands on a straight lane block of its heading, and the     *)
(* block straight ahead of that one is a straight lane of the same heading *)
OnStraightRun(car) ==
  \E b \in BlocksAt(grid, Floor(car.x), Floor(car.y)) :
     /\ b.type = "RoadLane"
     /\ b.dir = car.direction
     /\ Block(b.ox + directionVectors[b.dir].dx * ROAD_LANE_SIZE,
              b.oy + directionVectors[b.dir].dy * ROAD_LANE_SIZE,
              "RoadLane", b.dir) \in LayoutBlocks[grid]

(* C33: a single vehicle on a run of same-direction straight lanes, on a   *)
(* grid without intersections, advances by exactly its speed along its     *)
(* heading on every tick, heading unchanged and waiting counter 0, as long *)
(* as the lane straight ahead exists.                                      *)
AdvancesOnStraightRun ==
  [][(UpdateCars /\ Len(cars) = 1 /\ NoIntersections(grid)
        /\ OnStraightRun(cars[1])) =>
       /\ Advanced(cars[1], cars'[1])
       /\ cars'[1].direction = cars[1].direction
       /\ cars'[1].waiting = 0]_vars

(* the vehicle, alone, has driven from the first lane of the upper run     *)
(* into the third and still has a lane ahead                               *)
ThirdLaneOfTheRun ==
  /\ Len(cars) = 1
  /\ grid = "ring"
  /\ OnStraightRun(cars[1])
  /\ cars[1].direction = "right"
  /\ LaneOfCar(cars[1]).originX = 4
  /\ cars[1].x < 5 * Unit

(* ------------------------------------------------------------------------ *)
TrafficOperation == SpawnCar(MaxJointCars) \/ UpdateCars \/ ClearCars

CitizenOperation ==
  \/ SpawnCharacter(MaxJointCharacters)
  \/ UpdateCharacters
  \/ RemoveCharacter
  \/ ClearCharacters

(* C34: update, spawnCar and clearCars of the traffic manager leave the    *)
(* grid, the crosswalk pedestrian sets and every pedestrian as they were;  *)
(* the citizen manager's operations leave the grid and every vehicle as    *)
(* they were; and a step that changes a crosswalk pedestrian set is a step *)
(* of the citizen manager.                                                 *)
ManagersKeepToTheirOwn ==
  [][/\ TrafficOperation => UNCHANGED <<grid, pedestrianIds, characters>>
     /\ CitizenOperation => UNCHANGED <<grid, cars>>
     /\ pedestrianIds' # pedestrianIds => CitizenOperation
     /\ cars' # cars => UNCHANGED <<grid, pedestrianIds, characters>>
     /\ characters' # characters => UNCHANGED <<grid, cars>>]_vars

(* a vehicle has been driven off its spawn point while a pedestrian is     *)
(* registered on a crosswalk                                               *)
DrivingPastACrossing ==
  /\ \E c \in CrosswalkIds : pedestrianIds[c] # {}
  /\ \E i \in CarIndices(cars) :
        ~atCenterOf(cars[i], LaneOfCar(cars[i])) \/ cars[i].waiting > 0

(* ------------------------------------------------------------------------ *)
AheadTileX(char) == Floor(char.x) + directionVectors[char.direction].dx

AheadTileY(char) == Floor(char.y) + directionVectors[char.direction].dy

(* the tile ahead lies in a crosswalk zone whose signal refuses *)
SignalDeniesAhead(char) ==
  \E c \in CrosswalksOf(grid) :
     /\ <<AheadTileX(char), AheadTileY(char)>> \in LayoutCrosswalks[grid][c]
     /\ ~canCross[c]

WaitingForSignal(char) ==
  /\ NearCenter(char, Floor(char.x), Floor(char.y))
  /\ ~char.inCrosswalk
  /\ isWalkable(Env(grid, canCross, canWalk), AheadTileX(char), AheadTileY(char))
  /\ SignalDeniesAhead(char)

AtCenterOfItsTile(char, after) ==
  /\ after.x = Floor(char.x) * Unit + Half
  /\ after.y = Floor(char.y) * Unit + Half

(* C35: a pedestrian near its tile center, not crossing, whose tile ahead  *)
(* is walkable but in a crosswalk zone whose signal refuses, ends the tick *)
(* at the center of its current tile with its heading unchanged.           *)
WaitsForTheSignal ==
  [][UpdateCharacters =>
       \A i \in CharIndices(characters) :
          WaitingForSignal(characters[i]) =>
             /\ AtCenterOfItsTile(characters[i], characters'[i])
             /\ characters'[i].direction = characters[i].direction]_vars

(* a pedestrian off the center of its sidewalk tile, inside the decision   *)
(* zone, facing a crosswalk whose signal refuses                           *)
KerbWaitOffCenter ==
  \E i \in CharIndices(characters) :
     /\ WaitingForSignal(characters[i])
     /\ ~AtCenterOfItsTile(characters[i], characters[i])

(* ------------------------------------------------------------------------ *)
(* what the update of char can leave when no other pedestrian exists *)
AloneOutcomes(char) ==
  {o.char : o \in updateSingleCharacter(Env(grid, canCross, canWalk), pedestrianIds,
                                        <<char>>, char)}

(* another pedestrian within 0.4 of the point one step ahead of char *)
SomeoneAhead(char, chs) ==
  \E j \in CharIndices(chs) :
     /\ chs[j].id # char.id
     /\ 25 * Dist2(chs[j].x, chs[j].y,
                   char.x + directionVectors[char.direction].dx * char.speed,
                   char.y + directionVectors[char.direction].dy * char.speed)
          < 4 * Unit * Unit

SteppedAhead(char, after) ==
  /\ after.x = char.x + directionVectors[char.direction].dx * char.speed
  /\ after.y = char.y + directionVectors[char.direction].dy * char.speed

(* C36: a pedestrian whose tile is a road tile is updated as if no other   *)
(* pedestrian existed: with somebody within 0.4 of its next position it is *)
(* neither held where it stands nor given another heading; between tile    *)
(* centers it keeps its heading and either takes the step or is put back   *)
(* by the final validation.                                                *)
CrossingIgnoresTheCrowd ==
  [][UpdateCharacters =>
       \A i \in CharIndices(characters) :
          OnRoad(grid, characters[i]) =>
             /\ characters'[i] \in AloneOutcomes(characters[i])
             /\ (/\ ~NearCenter(characters[i], Floor(characters[i].x), Floor(characters[i].y))
                 /\ characters[i].inCrosswalk) =>
                   /\ characters'[i].direction = characters[i].direction
                   /\ \/ SteppedAhead(characters[i], characters'[i])
                      \/ AtCenterOfItsTile(characters[i], characters'[i])]_vars

(* a pedestrian on a road tile, between tile centers, with another         *)
(* pedestrian within 0.4 of its next position                              *)
CrowdedCrossing ==
  \E i \in CharIndices(characters) :
     /\ OnRoad(grid, characters[i])
     /\ characters[i].inCrosswalk
     /\ ~NearCenter(characters[i], Floor(characters[i].x), Floor(characters[i].y))
     /\ SomeoneAhead(characters[i], characters)

(* ------------------------------------------------------------------------ *)
(* positions probed: the first and the last point of every tile, one tile  *)
(* beyond the grid on each side                                            *)
ProbeXs == {t * Unit + o : t \in (-1)..GRID_WIDTH, o \in {0, Unit - 1}}

ProbeYs == {t * Unit + o : t \in (-1)..GRID_HEIGHT, o \in {0, Unit - 1}}

LaneOfBlock(b) ==
  [ok |-> TRUE, originX |-> b.ox, originY |-> b.oy, direction |-> b.dir, type |-> b.type]

(* laneAt as the sentence has it, read off the layout's blocks *)
LaneAsStated(g, gx, gy) ==
  IF OutOfGrid(gx, gy) \/ BlocksAt(g, gx, gy) = {} THEN {NoLane}
  ELSE {LaneOfBlock(b) : b \in BlocksAt(g, gx, gy)}

(* the same, absent as well when the block's origin cell has no direction *)
LaneOfDirectedBlock(g, gx, gy) ==
  IF OutOfGrid(gx, gy) \/ BlocksAt(g, gx, gy) = {} THEN {NoLane}
  ELSE {IF b.dir = "none" THEN NoLane ELSE LaneOfBlock(b) : b \in BlocksAt(g, gx, gy)}

Probes == {[x |-> x, y |-> y] : x \in ProbeXs, y \in ProbeYs}

(* C37 (as stated): laneAt is absent out of the grid and off the road, and *)
(* on every road tile of the grid it is the lane origin with the origin    *)
(* cell's direction and tile kind.                                         *)
LaneAtEveryRoadTile ==
  \A p \in Probes \cup {[x |-> cars[i].x, y |-> cars[i].y] : i \in CarIndices(cars)} :
     getLaneAt(grid, p.x, p.y) \in LaneAsStated(grid, Floor(p.x), Floor(p.y))

(* C37 (amended): laneAt is absent also on a road tile whose lane origin   *)
(* cell carries no direction.                                              *)
LaneAtEveryDirectedRoadTile ==
  \A p \in Probes \cup {[x |-> cars[i].x, y |-> cars[i].y] : i \in CarIndices(cars)} :
     getLaneAt(grid, p.x, p.y) \in LaneOfDirectedBlock(grid, Floor(p.x), Floor(p.y))

(* a vehicle stands on a road tile and has no lane *)
OnRoadWithoutLane ==
  \E i \in CarIndices(cars) :
     /\ BlocksAt(grid, Floor(cars[i].x), Floor(cars[i].y)) # {}
     /\ ~LaneOfCar(cars[i]).ok

(* ------------------------------------------------------------------------ *)
(* C38: on a grid that does not change, whenever a pedestrian is about to  *)
(* be updated its crossing flag is true exactly if the tile under its      *)
(* position is a road tile.                                                *)
FlagIffOnRoad ==
  \A i \in CharIndices(characters) :
     characters[i].inCrosswalk <=>
        TileTypeAt(grid, Floor(characters[i].x), Floor(characters[i].y))
           \in {"RoadLane", "RoadTurn"}

(* a pedestrian inside an intersection tile that has meanwhile been closed *)
(* to walking, its flag true                                               *)
InsideClosedIntersection ==
  \E i \in CharIndices(characters) :
     /\ characters[i].inCrosswalk
     /\ TileTypeAt(grid, Floor(characters[i].x), Floor(characters[i].y)) = "RoadTurn"
     /\ ~canWalk

(* ------------------------------------------------------------------------ *)
(* C39: after an update that found the vehicle on a straight lane the      *)
(* vehicle's inside-intersection flag is false; the flag is true after an  *)
(* update only if the update found the vehicle on an intersection tile or  *)
(* off the road.                                                           *)
FlagOnlyFromIntersection ==
  [][UpdateCars =>
       \A i \in CarIndices(cars) :
          /\ (LaneOfCar(cars[i]).ok /\ LaneOfCar(cars[i]).type = "RoadLane") =>
                ~cars'[i].inIntersection
          /\ cars'[i].inIntersection =>
                \/ ~LaneOfCar(cars[i]).ok
                \/ LaneOfCar(cars[i]).type = "RoadTurn"]_vars

(* a vehicle has left the intersection with its flag still true and is     *)
(* blocked on the straight lane behind another vehicle                     *)
FlaggedAndBlockedOnStraightLane ==
  \E i \in CarIndices(cars) :
     /\ cars[i].inIntersection
     /\ LaneOfCar(cars[i]).ok
     /\ LaneOfCar(cars[i]).type = "RoadLane"
     /\ isBlockedByOtherCar(cars[i], cars)

(* ------------------------------------------------------------------------ *)
(* where another vehicle is probed, in position units from the vehicle:    *)
(* along its heading from one tile behind to beyond the far side of the    *)
(* radius, and across it to beyond the radius on both sides                *)
ProbeAlong == (-Unit)..(4 * Unit)

ProbeAcross == (-(2 * Unit))..(2 * Unit)

(* the vehicle with heading d *)
Heading(car, d) == [car EXCEPT !.direction = d]

(* another vehicle a units along the heading of car and c units across it *)
ProbeAt(car, a, c) ==
  [car EXCEPT !.id = 0,
              !.x = car.x + a * directionVectors[car.direction].dx
                          + c * directionVectors[car.direction].dy,
              !.y = car.y + a * directionVectors[car.direction].dy
                          + c * directionVectors[car.direction].dx]

(* dist < 1.5 of the point 2.0 ahead of car along its heading *)
WithinRadiusAhead(car, other) ==
  4 * Dist2(other.x, other.y,
            car.x + directionVectors[car.direction].dx * 2 * Unit,
            car.y + directionVectors[car.direction].dy * 2 * Unit) < 9 * Unit * Unit

(* the projection of other - car onto the heading of car *)
Projection(car, other) ==
  (other.x - car.x) * directionVectors[car.direction].dx
    + (other.y - car.y) * directionVectors[car.direction].dy

AheadTestIdleFor(car, other) ==
  /\ WithinRadiusAhead(car, other) => 2 * Projection(car, other) >= Unit
  /\ isBlockedByOtherCar(car, <<other>>) <=> WithinRadiusAhead(car, other)
  /\ Projection(car, other) <= 0 => ~isBlockedByOtherCar(car, <<other>>)

(* C40: every other vehicle within 1.5 of the point 2.0 ahead of a vehicle *)
(* has a projection onto its heading of at least 0.5, so the vehicle is    *)
(* blocked exactly when some other vehicle is within that radius, and a    *)
(* vehicle behind or level with it never blocks it.                        *)
AheadTestNeverDecides ==
  \A i \in CarIndices(cars) :
     /\ \A d \in Direction, a \in ProbeAlong, c \in ProbeAcross :
           AheadTestIdleFor(Heading(cars[i], d), ProbeAt(Heading(cars[i], d), a, c))
     /\ isBlockedByOtherCar(cars[i], cars) <=>
           \E j \in CarIndices(cars) :
              cars[j].id # cars[i].id /\ WithinRadiusAhead(cars[i], cars[j])

(* a vehicle blocked by the one in front of it, which is not blocked by    *)
(* the vehicle behind although that one is as near                         *)
BlockedByTheOneInFront ==
  \E i, j \in CarIndices(cars) :
     /\ i # j
     /\ WithinRadiusAhead(cars[i], cars[j])
     /\ isBlockedByOtherCar(cars[i], cars)
     /\ Projection(cars[j], cars[i]) <= 0
     /\ ~isBlockedByOtherCar(cars[j], cars)

====
